---- MODULE Spec2Model ----
(***************************************************************************)
(* Model of the stock-analysis pipeline (src/src/stock_analysis):          *)
(*   - the AI backends and CombinedAnalyzer (core/analyzer.py),            *)
(*   - analyze_single_stock, one worker task per symbol,                   *)
(*   - StockAnalysisPipeline.run: a ThreadPoolExecutor fan-out drained by  *)
(*     concurrent.futures.as_completed, then the notification step         *)
(*     (core/pipeline.py),                                                 *)
(*   - _calculate_signals and calculate_all_indicators                     *)
(*     (core/technical_indicators.py),                                     *)
(*   - the support/resistance and sentiment rules of StockAnalysisSkill    *)
(*     and its report's combined advice (skills/stock_analysis.py),        *)
(*   - the configuration singleton (config/__init__.py),                   *)
(*   - calculate_sma, calculate_kdj and calculate_rsi on series of values  *)
(*     (core/technical_indicators.py),                                     *)
(*   - normalize_stock_code (utils/stock_code.py).                         *)
(* Specifications: Spec (a pipeline run), SpecAI (analyze_stock calls),    *)
(* SpecSig (one _calculate_signals call and the report's advice), SpecInd  *)
(* (one calculate_all_indicators call), SpecRule (the skill's rules),      *)
(* SpecCfg (calls of get_global_config and reload_config), SpecSma,        *)
(* SpecKdj, SpecRsi (one call of the function), SpecCode (one call of      *)
(* normalize_stock_code).                                                  *)
(*                                                                         *)
(* Units: percentages are in tenths of a percentage point (30 == 3.0%),    *)
(* sentiment scores in tenths (8 == 0.8), durations in seconds.            *)
(* A text is abstracted to its length; a formatted string is a record      *)
(* [kind, label, n] naming the format, its fixed label and its argument.   *)
(***************************************************************************)
EXTENDS Integers, Sequences, FiniteSets, TLC

VARIABLES
  analyzer,     \* the CombinedAnalyzer's backends, as built by __init__
  heap,         \* StockResult objects by object id
  resolutions,  \* how many times get_available_analyzer has run
  \* ---- one run of StockAnalysisPipeline.run ----
  argWorkers,   \* the max_workers argument of the pipeline (0 = None)
  cfgWorkers,   \* config.max_workers (0 = the config has no such attribute)
  importsOk,    \* whether the task's function-level imports succeed
  nSym,         \* number of symbols of this run; symbol s is input position s
  phase,        \* position of run(): start, submit, collect, done
  submitted,    \* how many futures the dict comprehension has submitted
  pc,           \* position of each symbol's task
  session,      \* state of each TencentDataSource session
  stock_data,   \* the quote each task holds (its local variable)
  fetched,      \* how each task's two provider round trips ended
  sel,          \* backend each task's analyze_stock call resolved
  ret,          \* object id each task returned (0 = None)
  raisedTask,   \* whether the task's future holds an exception
  took,         \* seconds each task has been running
  completed,    \* the symbols in the order their futures completed
  snapshot,     \* futures already finished when as_completed started
  waiterQ,      \* futures finished since, in the waiter's list
  yielded,      \* futures as_completed has handed to the loop, in order
  results,      \* the results list of run()
  log,          \* failure-level log entries per symbol and emitting module
  acc,          \* every access <<thread, object, mode>> to a Python object
  notice,       \* run()'s notification step: its arguments and how it ended
  \* ---- a caller of analyze_stock outside the pipeline ----
  aiPc,         \* idle, resolved (backend chosen), returned
  aiTarget,     \* whose analyze_stock is called: combined or one backend
  aiBefore,     \* the fields of the input object when the call started
  aiInvoked,    \* the backends whose analyze_stock the call has entered
  aiResp,       \* the reply the backend's transport gave
  aiOut,        \* the object the call returned (0 while it runs)
  aiRaised,     \* whether the call raised to its caller
  aiCalls,      \* calls completed so far
  \* ---- one call of _calculate_signals ----
  frame,        \* the indicator columns of the DataFrame passed in
  signals,      \* the signal columns the call added to it
  \* ---- one call of calculate_all_indicators ----
  bars,         \* len(data), the number of bars of history (-1 = data is None)
  fault,        \* the indicator whose computation raises in this call
  indResult,    \* what the call produced: raised, None or the frame's columns
  \* ---- the rules StockAnalysisSkill applies to a quote ----
  changePercent, \* the quote's change percent, in tenths
  levels,       \* what _get_support_resistance returned
  sentiment,    \* what _calculate_basic_sentiment returned
  \* ---- the technical report's combined advice ----
  advice,       \* the advice _build_report states for the latest bar
  \* ---- the module-level configuration singleton ----
  globalConfig, \* config._config: the cached instance (0 = None)
  cfgCreated,   \* Config instances get_config has created so far
  cfgTrace,     \* the calls made so far: operation and instance returned
  \* ---- one call of a numeric indicator function ----
  series,       \* the input columns, as sequences of values
  windowArg,    \* the window argument
  numOut,       \* the series the function returned
  \* ---- one call of normalize_stock_code ----
  codeIn,       \* the argument, a sequence of characters
  codeOut       \* what the call returned

pipeVars ==
  <<argWorkers, cfgWorkers, importsOk, nSym, phase, submitted,
    pc, session, stock_data, fetched, sel, ret, raisedTask, took, completed,
    snapshot, waiterQ, yielded, results, log, acc, notice>>

aiVars == <<aiPc, aiTarget, aiBefore, aiInvoked, aiResp, aiOut, aiRaised, aiCalls>>

sigVars == <<frame, signals>>

indVars == <<bars, fault, indResult>>

ruleVars == <<changePercent, levels, sentiment>>

cfgVars == <<globalConfig, cfgCreated, cfgTrace>>

numVars == <<series, windowArg, numOut>>

codeVars == <<codeIn, codeOut>>

auxVars == <<advice, cfgVars, numVars, codeVars>>

fnVars == <<sigVars, indVars, ruleVars, auxVars>>

vars == <<analyzer, heap, resolutions, pipeVars, aiVars, fnVars>>

(* ------------------------------ bounds -------------------------------- *)

\* the most symbols one pipeline run is given
MaxSymbols == 2

\* the most analyze_stock calls the stand-alone analyzer driver makes
MaxCalls == 2

\* the most rows of a frame _calculate_signals is given
MaxBars == 3

\* the longest history, in bars, calculate_all_indicators is given
MaxHistory == 115

\* the largest change percent, in tenths, a quote carries (either sign)
MaxChangePct == 60

\* the most calls of get_global_config and reload_config in one process
MaxConfigCalls == 5

\* the longest series calculate_sma and calculate_kdj are given
MaxSeriesLen == 4

\* the largest price, in price units, of those series
MaxPrice == 2

\* the most bars calculate_kdj is given
MaxKdjBars == 3

\* the highest price level of those bars
MaxKdjPrice == 1

\* the larger of the two price steps, in units of EPSILON
BigStep == 10

\* the most closes calculate_rsi is given
MaxRsiBars == 16

\* the most characters after the prefix of a code given to normalize_stock_code
MaxBodyLen == 6

(* ------------------------- program constants -------------------------- *)

CHANGE_PCT_MEDIUM == 30

MIN_DATA_DAYS == 20

REQUEST_TIMEOUT == 10

AI_REQUEST_TIMEOUT == 60

DEFAULT_MAX_WORKERS == 3

TASK_TIMEOUT == 30

DEEPSEEK_KEY_MIN == 10

DEEPSEEK_ADVICE_CHARS == 200

DEEPSEEK_TREND_END == 400

AI_ADVICE_CHARS == 300

HISTORY_DAYS == 30

CHANGE_PCT_HIGH == 50

MIN_DAYS_FOR_KDJ == 9

MIN_DAYS_FOR_MACD == 26

MIN_DAYS_FOR_BBI == 24

MIN_DAYS_FOR_ZHIXING_MULTI == 114

KDJ_N == 9

RSI_PERIOD == 14

\* the digits STOCK_CODE_PATTERN asks for
CODE_DIGITS == 6

\* the length normalize_stock_code asks of a code with a market prefix
PREFIXED_LEN == 8

KDJ_M1 == 3

KDJ_M2 == 3

\* EPSILON = 1e-10; the value-level indicator functions count prices in
\* units of EPSILON
EPSILON == 1

MA_PERIODS == [ma5 |-> 5, ma10 |-> 10, ma20 |-> 20, ma30 |-> 30, ma60 |-> 60]

EMA_PERIODS == [ema13 |-> 13]

BBI_PERIODS == <<3, 6, 12, 24>>

ZHIXING_MULTI_PERIODS == <<14, 28, 57, 114>>

(* ------------------------------ helpers ------------------------------- *)

Min(a, b) == IF a < b THEN a ELSE b

Max(a, b) == IF a > b THEN a ELSE b

Abs(x) == IF x < 0 THEN -x ELSE x

Range(q) == {q[i] : i \in 1..Len(q)}

\* a formatted string: which format, its fixed label, its numeric argument
Text(kind, label, n) == [kind |-> kind, label |-> label, n |-> n]

(* --------------------------- StockResult ------------------------------ *)

\* variant: the thresholds are inclusive
CalculateBasicSentimentInclusive(change_pct) ==
  IF change_pct >= CHANGE_PCT_MEDIUM THEN <<8, "cautious_chase">>
  ELSE IF change_pct >= 0 THEN <<6, "watch">>
  ELSE IF change_pct >= -CHANGE_PCT_MEDIUM THEN <<4, "watch_opportunity">>
  ELSE <<2, "caution">>

\* _calculate_basic_sentiment: (score, advice) from the change percent
CalculateBasicSentiment(change_pct) ==
  IF change_pct > CHANGE_PCT_MEDIUM THEN <<8, "cautious_chase">>
  ELSE IF change_pct > 0 THEN <<6, "watch">>
  ELSE IF change_pct > -CHANGE_PCT_MEDIUM THEN <<4, "watch_opportunity">>
  ELSE <<2, "caution">>

\* variant: the MIN_DATA_DAYS guard is missing
CalculateBasicTechnicalIndicatorsNoMinimum(histLen) ==
  [MA5 |-> histLen >= 0, MA10 |-> histLen >= 0,
   MA20 |-> histLen >= 0, RSI |-> histLen >= 0,
   MACD |-> FALSE, signal |-> "neutral"]

\* calculate_basic_technical_indicators, abstracted to which indicators are
\* defined: nothing below MIN_DATA_DAYS closes, MA5/MA10/MA20/RSI from there
\* on; MACD stays None and signal stays "neutral" in every case
CalculateBasicTechnicalIndicators(histLen) ==
  [MA5 |-> histLen >= MIN_DATA_DAYS, MA10 |-> histLen >= MIN_DATA_DAYS,
   MA20 |-> histLen >= MIN_DATA_DAYS, RSI |-> histLen >= MIN_DATA_DAYS,
   MACD |-> FALSE, signal |-> "neutral"]

\* the StockResult that analyze_single_stock assembles from a quote and the
\* history it fetched
BuildStockResult(code, quote, histLen) ==
  LET sent == CalculateBasicSentiment(quote.change_pct) IN
  [code |-> code, name |-> quote.name, current_price |-> quote.now,
   change_percent |-> quote.change_pct,
   sentiment_score |-> sent[1],
   operation_advice |-> Text("rule", sent[2], 0),
   trend_prediction |-> Text("change_fmt", "", quote.change_pct),
   technical_indicators |-> CalculateBasicTechnicalIndicators(histLen),
   additional_info |-> 0]

\* the value of a heap cell that holds no object
NoResult ==
  [code |-> 0, name |-> 0, current_price |-> 0, change_percent |-> 0,
   sentiment_score |-> 0, operation_advice |-> Text("none", "", 0),
   trend_prediction |-> Text("none", "", 0),
   technical_indicators |-> CalculateBasicTechnicalIndicators(0),
   additional_info |-> 0]

(* --------------------------- AI responses ----------------------------- *)

\* what a backend's transport hands back:
\*   raise        the call raises (connection error, timeout)
\*   non200       an HTTP error status
\*   malformed    a 200 body that does not parse / lacks the expected keys
\*   no_choices   a well-formed reply with no candidate / empty choices
\*   null_content a reply whose text is None
\*   text         a reply whose text has len characters (0 = empty string)
\*                and mentions buy words, sell words, both or none
ResponseKinds == {"raise", "non200", "malformed", "no_choices", "null_content", "text"}

TextLens == {0, 1, 200, 201, 301, 401}

Responses ==
  {[kind |-> k, len |-> 0, kw |-> "none"] : k \in ResponseKinds}
  \cup {[kind |-> "text", len |-> l, kw |-> w] : l \in TextLens \ {0},
                                                 w \in {"buy", "sell", "both", "none"}}

(* ----------------------------- backends ------------------------------- *)

\* GeminiAnalyzer._extract_trend: buy words win over sell words
ExtractTrend(kw) ==
  IF kw \in {"buy", "both"} THEN "short_term_up"
  ELSE IF kw = "sell" THEN "short_term_down"
  ELSE "sideways"

\* GeminiAnalyzer.__init__ / OpenAICompatibleAnalyzer.__init__: the client
\* exists iff the SDK imported, the key is non-empty and the SDK constructor
\* did not raise
MakeClientAnalyzer(keyLen, sdkAvailable, initOk) ==
  [configured |-> keyLen > 0, client |-> sdkAvailable /\ keyLen > 0 /\ initOk]

\* DeepSeekAnalyzer.__init__ keeps the key
MakeDeepSeekAnalyzer(keyLen) == [configured |-> keyLen > 0, api_key_len |-> keyLen]

\* CombinedAnalyzer.__init__ / _init_analyzers: a backend object is created
\* iff its api key is non-empty
InitAnalyzers(ai, sdk) ==
  [gemini |-> MakeClientAnalyzer(ai.gemini_key_len, sdk.genai, sdk.genai_init),
   openai |-> MakeClientAnalyzer(ai.openai_key_len, sdk.openai, sdk.openai_init),
   deepseek |-> MakeDeepSeekAnalyzer(ai.deepseek_key_len),
   GENAI_AVAILABLE |-> sdk.genai, OPENAI_AVAILABLE |-> sdk.openai]

GeminiIsAvailable(an) == an.GENAI_AVAILABLE /\ an.gemini.client

OpenAIIsAvailable(an) == an.OPENAI_AVAILABLE /\ an.openai.client

DeepSeekIsAvailable(an) ==
  an.deepseek.api_key_len > 0 /\ an.deepseek.api_key_len > DEEPSEEK_KEY_MIN

\* variant: the priority list is rotated on every other resolution
GetAvailableAnalyzerAlternating(an) ==
  IF resolutions % 2 = 0 /\ an.deepseek.configured /\ DeepSeekIsAvailable(an) THEN "deepseek"
  ELSE IF resolutions % 2 = 0 /\ an.openai.configured /\ OpenAIIsAvailable(an) THEN "openai"
  ELSE IF an.gemini.configured /\ GeminiIsAvailable(an) THEN "gemini"
  ELSE "none"

\* variant: the priority order is reversed
GetAvailableAnalyzerGeminiFirst(an) ==
  IF an.gemini.configured /\ GeminiIsAvailable(an) THEN "gemini"
  ELSE IF an.openai.configured /\ OpenAIIsAvailable(an) THEN "openai"
  ELSE IF an.deepseek.configured /\ DeepSeekIsAvailable(an) THEN "deepseek"
  ELSE "none"

\* CombinedAnalyzer.get_available_analyzer: DeepSeek > OpenAI > Gemini
GetAvailableAnalyzer(an) ==
  IF an.deepseek.configured /\ DeepSeekIsAvailable(an) THEN "deepseek"
  ELSE IF an.openai.configured /\ OpenAIIsAvailable(an) THEN "openai"
  ELSE IF an.gemini.configured /\ GeminiIsAvailable(an) THEN "gemini"
  ELSE "none"

\* The outcome of one analyze_stock call on the heap h: the heap after the
\* call, the object returned, whether an exception is propagating and
\* whether the backend's transport was used.
Outcome(h, r, raised, requested) ==
  [heap |-> h, ret |-> r, raised |-> raised, requested |-> requested]

\* the "except Exception" clause that closes each backend's try block: log
\* and return the input object
CatchAll(body, id) ==
  IF body.raised THEN Outcome(body.heap, id, FALSE, body.requested) ELSE body

\* GeminiAnalyzer.analyze_stock, the try block: generate_content raises on a
\* transport or API error, response.text raises when the reply carries no
\* candidate, and a non-empty text updates the input object in place
GeminiTryBlock(h, id, resp) ==
  IF resp.kind \in {"raise", "non200", "malformed", "no_choices"}
    THEN Outcome(h, id, TRUE, TRUE)
  ELSE IF resp.kind = "text" /\ resp.len > 0
    THEN Outcome([h EXCEPT ![id].operation_advice =
                               Text("ai_advice", "", Min(resp.len, AI_ADVICE_CHARS)),
                           ![id].trend_prediction =
                               Text("trend_label", ExtractTrend(resp.kw), 0)],
                 id, FALSE, TRUE)
  ELSE Outcome(h, id, FALSE, TRUE)

GeminiAnalyzeStock(an, h, id, resp) ==
  IF ~GeminiIsAvailable(an) THEN Outcome(h, id, FALSE, FALSE)
  ELSE CatchAll(GeminiTryBlock(h, id, resp), id)

\* OpenAICompatibleAnalyzer.analyze_stock, the try block: the SDK raises on
\* transport errors, error statuses and unparsable bodies; an empty choices
\* list is skipped; content[:300] raises on a None content; a string content
\* (also the empty string) replaces operation_advice in place
OpenAITryBlock(h, id, resp) ==
  IF resp.kind \in {"raise", "non200", "malformed", "null_content"}
    THEN Outcome(h, id, TRUE, TRUE)
  ELSE IF resp.kind = "text"
    THEN Outcome([h EXCEPT ![id].operation_advice =
                               Text("ai_advice", "", Min(resp.len, AI_ADVICE_CHARS))],
                 id, FALSE, TRUE)
  ELSE Outcome(h, id, FALSE, TRUE)

OpenAIAnalyzeStock(an, h, id, resp) ==
  IF ~OpenAIIsAvailable(an) THEN Outcome(h, id, FALSE, FALSE)
  ELSE CatchAll(OpenAITryBlock(h, id, resp), id)

\* a DeepSeek backend that also takes the sentiment from the reply's words
DeepSeekTryBlockRescoring(h, id, newId, resp) ==
  IF resp.kind \in {"raise", "malformed", "no_choices", "null_content"}
    THEN Outcome(h, id, TRUE, TRUE)
  ELSE IF resp.kind = "text"
    THEN Outcome([h EXCEPT ![newId] =
                    [h[id] EXCEPT
                       !.sentiment_score = IF resp.kw = "buy" THEN 8 ELSE 2,
                       !.operation_advice =
                           Text("ai_advice", "", Min(resp.len, DEEPSEEK_ADVICE_CHARS)),
                       !.trend_prediction = Text("ai_slice", "", resp.len)]],
                 newId, FALSE, TRUE)
  ELSE Outcome(h, id, FALSE, TRUE)

\* DeepSeekAnalyzer.analyze_stock, the try block: requests.post raises on a
\* transport error; a status other than 200 returns the input; json() and
\* the ["choices"][0]["message"]["content"] lookup raise on a malformed body
\* or an empty choices list; ai_response[:200] raises on a None content; a
\* string content (also the empty string) gives a new StockResult, newId
DeepSeekTryBlock(h, id, newId, resp) ==
  IF resp.kind \in {"raise", "malformed", "no_choices", "null_content"}
    THEN Outcome(h, id, TRUE, TRUE)
  ELSE IF resp.kind = "text"
    THEN Outcome([h EXCEPT ![newId] =
                    [h[id] EXCEPT
                       !.operation_advice =
                           Text("ai_advice", "", Min(resp.len, DEEPSEEK_ADVICE_CHARS)),
                       !.trend_prediction =
                           Text("ai_slice", "",
                                IF resp.len > DEEPSEEK_ADVICE_CHARS
                                  THEN Min(resp.len, DEEPSEEK_TREND_END) - DEEPSEEK_ADVICE_CHARS
                                  ELSE resp.len)]],
                 newId, FALSE, TRUE)
  ELSE Outcome(h, id, FALSE, TRUE)

DeepSeekAnalyzeStock(an, h, id, newId, resp) ==
  IF ~DeepSeekIsAvailable(an) THEN Outcome(h, id, FALSE, FALSE)
  ELSE CatchAll(DeepSeekTryBlock(h, id, newId, resp), id)

\* the backend named b applied to the object id
BackendAnalyzeStock(b, an, h, id, newId, resp) ==
  CASE b = "deepseek" -> DeepSeekAnalyzeStock(an, h, id, newId, resp)
    [] b = "openai" -> OpenAIAnalyzeStock(an, h, id, resp)
    [] b = "gemini" -> GeminiAnalyzeStock(an, h, id, resp)
    [] OTHER -> Outcome(h, id, FALSE, FALSE)


\* CombinedAnalyzer.analyze_stock: resolve the backend, then delegate to it;
\* with no backend available the input object is returned
CombinedAnalyzeStock(an, h, id, newId, resp) ==
  BackendAnalyzeStock(GetAvailableAnalyzer(an), an, h, id, newId, resp)

\* what the backend b writes to the log for a reply: one error entry when
\* the try block raised, and DeepSeek's error entry for a non-200 status
BackendErrorLogged(b, resp) ==
  CASE b = "deepseek" -> resp.kind \in {"raise", "malformed", "no_choices", "null_content", "non200"}
    [] b = "openai" -> resp.kind \in {"raise", "non200", "malformed", "null_content"}
    [] b = "gemini" -> resp.kind \in {"raise", "non200", "malformed", "no_choices"}
    [] OTHER -> FALSE

(* ============================ the pipeline ============================ *)

Symbols == 1..MaxSymbols

ObjIds == 1..(2 * MaxSymbols)

\* the object DeepSeek allocates for symbol s
NewObjOf(s) == MaxSymbols + s

\* the thread that runs run() itself
MainThread == 0

\* variant: one TencentDataSource shared by every task
SharedSession(s) == 1

\* analyze_single_stock opens its own TencentDataSource per call
SessionOf(s) == s

\* variant: the configuration wins over the explicit argument
ResolveMaxWorkersConfigFirst(arg, cfg) ==
  IF cfg # 0 THEN cfg
  ELSE IF arg # 0 THEN arg
  ELSE DEFAULT_MAX_WORKERS

\* StockAnalysisPipeline.__init__: max_workers or getattr(config,
\* "max_workers", DEFAULT_MAX_WORKERS); 0 stands for None / no attribute
ResolveMaxWorkers(arg, cfg) ==
  IF arg # 0 THEN arg
  ELSE IF cfg # 0 THEN cfg
  ELSE DEFAULT_MAX_WORKERS

max_workers == ResolveMaxWorkers(argWorkers, cfgWorkers)

Running == {s \in Symbols : pc[s] \in {"quote", "kline", "select", "invoke"}}

NoLog == [source |-> 0, task |-> 0, ai |-> 0, pipe |-> 0, timeout |-> 0]

NoQuote == [name |-> 0, now |-> 0, change_pct |-> 0]

NoFetch == [quote |-> "none", kline |-> "none"]

\* the configurations a pipeline run is explored under: no backend, an
\* OpenAI-compatible backend, a DeepSeek backend
PipeAIConfigs ==
  {[gemini_key_len |-> 0, openai_key_len |-> k[1], deepseek_key_len |-> k[2]] :
     k \in {<<0, 0>>, <<20, 0>>, <<0, 11>>}}

AllSDK == [genai |-> TRUE, genai_init |-> TRUE, openai |-> TRUE, openai_init |-> TRUE]

\* <<max_workers argument, config.max_workers>>, 0 for None / no attribute
PipeWorkerConfigs == {<<0, 0>>, <<0, 2>>, <<1, 2>>}

PipeResponses ==
  {r \in Responses : r.kind = "raise" \/ (r.kind = "text" /\ r.len = 201 /\ r.kw = "none")}

\* the quote the provider serves for symbol s: each symbol has its own
\* name, price and change (31, -30, 29, -60, ... tenths of a percent)
Quote(s) ==
  [name |-> s, now |-> 10 * s,
   change_pct |-> IF s % 2 = 1 THEN 32 - s ELSE -15 * s]

\* run() has not reached its notification step
NoNotice ==
  [dry_run |-> FALSE, send_notification |-> FALSE, entered |-> FALSE,
   report |-> "none", send |-> "none", logged |-> 0]

\* the value of an output no call has produced yet
NotCalled == [kind |-> "not_called"]

\* no call of _calculate_signals is being driven
SigIdle ==
  /\ frame = NotCalled
  /\ signals = NotCalled

\* no call of calculate_all_indicators is being driven
IndIdle ==
  /\ bars = 0
  /\ fault = "none"
  /\ indResult = NotCalled

\* no rule of the skill is being driven
RuleIdle ==
  /\ changePercent = 0
  /\ levels = NotCalled
  /\ sentiment = <<0, "not_called">>

\* no report is being built
ReportIdle == advice = NotCalled

\* the configuration module is not being driven
CfgIdle ==
  /\ globalConfig = 0
  /\ cfgCreated = 0
  /\ cfgTrace = <<>>

\* no numeric indicator function is being driven
NumIdle ==
  /\ series = NotCalled
  /\ windowArg = 0
  /\ numOut = NotCalled

\* normalize_stock_code is not being driven
CodeIdle ==
  /\ codeIn = <<>>
  /\ codeOut = NotCalled

AuxIdle == ReportIdle /\ CfgIdle /\ NumIdle /\ CodeIdle

FnIdle == SigIdle /\ IndIdle /\ RuleIdle /\ AuxIdle

AIIdle ==
  /\ aiPc = "idle"
  /\ aiTarget = "combined"
  /\ aiBefore = NoResult
  /\ aiInvoked = {}
  /\ aiResp = [kind |-> "raise", len |-> 0, kw |-> "none"]
  /\ aiOut = 0
  /\ aiRaised = FALSE
  /\ aiCalls = 0

PipeIdle ==
  /\ argWorkers = 0
  /\ cfgWorkers = 0
  /\ importsOk = TRUE
  /\ nSym = 0
  /\ phase = "start"
  /\ submitted = 0
  /\ pc = [s \in Symbols |-> "unsubmitted"]
  /\ session = [s \in Symbols |-> "none"]
  /\ stock_data = [s \in Symbols |-> NoQuote]
  /\ fetched = [s \in Symbols |-> NoFetch]
  /\ sel = [s \in Symbols |-> "unresolved"]
  /\ ret = [s \in Symbols |-> 0]
  /\ raisedTask = [s \in Symbols |-> FALSE]
  /\ took = [s \in Symbols |-> 0]
  /\ completed = <<>>
  /\ snapshot = {}
  /\ waiterQ = <<>>
  /\ yielded = <<>>
  /\ results = <<>>
  /\ log = [s \in Symbols |-> NoLog]
  /\ acc = {}
  /\ notice = NoNotice

\* a pipeline constructed over one of the configurations, run() not yet
\* entered, with 0..MaxSymbols symbols to analyze
PipeInit ==
  /\ analyzer \in {InitAnalyzers(ai, AllSDK) : ai \in PipeAIConfigs}
  /\ heap = [i \in ObjIds |-> NoResult]
  /\ \E w \in PipeWorkerConfigs : argWorkers = w[1] /\ cfgWorkers = w[2]
  /\ importsOk \in BOOLEAN
  /\ nSym \in 0..MaxSymbols
  /\ phase = "start"
  /\ submitted = 0
  /\ pc = [s \in Symbols |-> "unsubmitted"]
  /\ session = [s \in Symbols |-> "none"]
  /\ stock_data = [s \in Symbols |-> NoQuote]
  /\ fetched = [s \in Symbols |-> NoFetch]
  /\ sel = [s \in Symbols |-> "unresolved"]
  /\ ret = [s \in Symbols |-> 0]
  /\ raisedTask = [s \in Symbols |-> FALSE]
  /\ took = [s \in Symbols |-> 0]
  /\ completed = <<>>
  /\ snapshot = {}
  /\ waiterQ = <<>>
  /\ yielded = <<>>
  /\ results = <<>>
  /\ log = [s \in Symbols |-> NoLog]
  /\ acc = {}
  /\ notice = NoNotice
  /\ resolutions = 0
  /\ AIIdle
  /\ FnIdle

(* ------------------------- the worker tasks --------------------------- *)

Access(thread, kind, id, mode) == <<thread, <<kind, id>>, mode>>

\* a __exit__ that leaves the session as it is
CloseNothing(state) == state

\* TencentDataSource.__exit__ / close: self._session.close()
Close(state) == "closed"

\* Future.set_result / set_exception as seen by as_completed: the future
\* becomes finished, and once the waiter is installed it is appended to the
\* waiter's finished_futures list
FinishTask(s, r, exc, dt, newAcc) ==
  /\ pc' = [pc EXCEPT ![s] = "finished"]
  /\ ret' = [ret EXCEPT ![s] = r]
  /\ raisedTask' = [raisedTask EXCEPT ![s] = exc]
  /\ took' = [took EXCEPT ![s] = @ + dt]
  /\ completed' = Append(completed, s)
  /\ waiterQ' = IF phase = "collect" THEN Append(waiterQ, s) ELSE waiterQ
  /\ acc' = acc \cup newAcc \cup {Access(s, "future", s, "w")}

\* a worker thread of the pool takes the oldest queued work item; the pool
\* never has more than max_workers threads.  analyze_single_stock first runs
\* its two imports, outside its try block, then opens a TencentDataSource.
StartTask(s) ==
  /\ pc[s] = "pending"
  /\ \A t \in Symbols : t < s => pc[t] # "pending"
  /\ Cardinality(Running) < max_workers
  /\ IF importsOk
       THEN /\ pc' = [pc EXCEPT ![s] = "quote"]
            /\ session' = [session EXCEPT ![SessionOf(s)] = "open"]
            /\ acc' = acc \cup {Access(s, "session", SessionOf(s), "w")}
            /\ UNCHANGED <<ret, raisedTask, took, completed, waiterQ>>
       ELSE /\ FinishTask(s, 0, TRUE, 0, {})
            /\ UNCHANGED session
  /\ UNCHANGED <<analyzer, heap, argWorkers, cfgWorkers, importsOk, nSym, phase,
                 submitted, stock_data, fetched, sel, snapshot, yielded, results,
                 log, resolutions, aiVars, notice, fnVars>>

\* source.get_realtime([code]) and the check that follows it.  The provider
\* catches its own failures (logging one error) and returns {}; a reply that
\* lacks the code is "missing".  Without a quote the task logs an error,
\* leaves the with block (closing the session) and returns None.
GetRealtime(s, outcome) ==
  /\ pc[s] = "quote"
  /\ fetched' = [fetched EXCEPT ![s].quote = outcome]
  /\ IF outcome = "ok"
       THEN /\ pc' = [pc EXCEPT ![s] = "kline"]
            /\ stock_data' = [stock_data EXCEPT ![s] = Quote(s)]
            /\ acc' = acc \cup {Access(s, "session", SessionOf(s), "w")}
            /\ UNCHANGED <<session, ret, raisedTask, took, completed, waiterQ, log>>
       ELSE /\ FinishTask(s, 0, FALSE,
                          IF outcome = "timeout" THEN REQUEST_TIMEOUT ELSE 0,
                          {Access(s, "session", SessionOf(s), "w")})
            /\ session' = [session EXCEPT ![SessionOf(s)] = Close(@)]
            /\ log' = [log EXCEPT ![s].source = @ + (IF outcome = "missing" THEN 0 ELSE 1),
                                  ![s].task = @ + 1]
            /\ UNCHANGED stock_data
  /\ UNCHANGED <<analyzer, heap, argWorkers, cfgWorkers, importsOk, nSym, phase,
                 submitted, sel, snapshot, yielded, results, resolutions, aiVars, notice, fnVars>>

\* source.get_kline_data(code, days=30), the end of the with block, and the
\* construction of the StockResult.  The provider catches its own failures
\* (one log entry) and returns []; the task goes on with an empty history.
GetKline(s, outcome) ==
  /\ pc[s] = "kline"
  /\ fetched' = [fetched EXCEPT ![s].kline = outcome]
  /\ session' = [session EXCEPT ![SessionOf(s)] = Close(@)]
  /\ LET len == IF outcome = "ok" THEN HISTORY_DAYS ELSE 0
         srcLog == IF outcome = "ok" THEN 0 ELSE 1
     IN /\ heap' = [heap EXCEPT ![s] = BuildStockResult(s, stock_data[s], len)]
        /\ pc' = [pc EXCEPT ![s] = "select"]
        /\ log' = [log EXCEPT ![s].source = @ + srcLog]
        /\ acc' = acc \cup {Access(s, "session", SessionOf(s), "w"),
                            Access(s, "result", s, "w")}
  /\ UNCHANGED <<analyzer, argWorkers, cfgWorkers, importsOk, nSym, phase,
                 submitted, stock_data, sel, ret, raisedTask, took, completed,
                 waiterQ, snapshot, yielded, results, resolutions, aiVars, notice, fnVars>>

\* CombinedAnalyzer.analyze_stock, first half: get_available_analyzer().
\* With no backend the StockResult is returned as it is.
SelectBackend(s) ==
  /\ pc[s] = "select"
  /\ LET b == GetAvailableAnalyzer(analyzer) IN
       /\ sel' = [sel EXCEPT ![s] = b]
       /\ resolutions' = resolutions + 1
       /\ IF b = "none"
            THEN FinishTask(s, s, FALSE, 0, {Access(s, "analyzer", 0, "r")})
            ELSE /\ pc' = [pc EXCEPT ![s] = "invoke"]
                 /\ acc' = acc \cup {Access(s, "analyzer", 0, "r")}
                 /\ UNCHANGED <<ret, raisedTask, took, completed, waiterQ>>
  /\ UNCHANGED <<analyzer, heap, argWorkers, cfgWorkers, importsOk, nSym, phase,
                 submitted, session, stock_data, fetched, snapshot, yielded,
                 results, log, aiVars, notice, fnVars>>

\* CombinedAnalyzer.analyze_stock, second half: the resolved backend's
\* analyze_stock, whose value the task returns.  A request that runs into
\* AI_REQUEST_TIMEOUT raises inside the backend after that many seconds.
InvokeBackend(s, resp, timedOut) ==
  /\ pc[s] = "invoke"
  /\ timedOut => resp.kind = "raise"
  /\ LET out == BackendAnalyzeStock(sel[s], analyzer, heap, s, NewObjOf(s), resp) IN
       /\ heap' = out.heap
       /\ FinishTask(s, out.ret, out.raised,
                     IF timedOut THEN AI_REQUEST_TIMEOUT ELSE 0,
                     {Access(s, "analyzer", 0, "r"), Access(s, "result", out.ret, "w")})
       /\ log' = [log EXCEPT ![s].ai = @ + (IF BackendErrorLogged(sel[s], resp) THEN 1 ELSE 0)]
  /\ UNCHANGED <<analyzer, argWorkers, cfgWorkers, importsOk, nSym, phase,
                 submitted, session, stock_data, fetched, sel, snapshot, yielded,
                 results, resolutions, aiVars, notice, fnVars>>

(* --------------------------- run() itself ----------------------------- *)

\* run(), up to the executor: an empty symbol list returns [] at once
Begin ==
  /\ phase = "start"
  /\ phase' = IF nSym = 0 THEN "done" ELSE "submit"
  /\ UNCHANGED <<analyzer, heap, argWorkers, cfgWorkers, importsOk, nSym,
                 submitted, pc, session, stock_data, fetched, sel, ret,
                 raisedTask, took, completed, snapshot, waiterQ, yielded,
                 results, log, acc, resolutions, aiVars, notice, fnVars>>

\* one executor.submit of the dict comprehension, in input order
Submit ==
  /\ phase = "submit"
  /\ submitted < nSym
  /\ submitted' = submitted + 1
  /\ pc' = [pc EXCEPT ![submitted + 1] = "pending"]
  /\ acc' = acc \cup {Access(MainThread, "future", submitted + 1, "w")}
  /\ UNCHANGED <<analyzer, heap, argWorkers, cfgWorkers, importsOk, nSym, phase,
                 session, stock_data, fetched, sel, ret, raisedTask, took,
                 completed, snapshot, waiterQ, yielded, results, log,
                 resolutions, aiVars, notice, fnVars>>

\* the first step of as_completed(future_to_code): under the futures' locks
\* it collects the set of futures already finished and installs its waiter
AsCompleted ==
  /\ phase = "submit"
  /\ submitted = nSym
  /\ phase' = "collect"
  /\ snapshot' = {s \in Symbols : pc[s] = "finished"}
  /\ UNCHANGED <<analyzer, heap, argWorkers, cfgWorkers, importsOk, nSym,
                 submitted, pc, session, stock_data, fetched, sel, ret,
                 raisedTask, took, completed, waiterQ, yielded, results, log,
                 acc, resolutions, aiVars, notice, fnVars>>

\* how long future.result(timeout=...) has to wait for the future f: not at
\* all once f is finished, otherwise longer than any timeout
ResultWait(f) == IF pc[f] = "finished" THEN 0 ELSE TASK_TIMEOUT + 1

\* variant: the list is popped from its end without being reversed
NewestFromWaiter(q) == q[Len(q)]

\* the future the waiter's list hands out next: as_completed reverses the
\* list and pops from its end, so the oldest entry comes first
NextFromWaiter(q) == Head(q)

\* the futures as_completed may yield next: those of its first set in the
\* set's iteration order (any of them), then the waiter's list in order
Yieldable ==
  IF snapshot \ Range(yielded) # {} THEN snapshot \ Range(yielded)
  ELSE IF waiterQ # <<>> THEN {NextFromWaiter(waiterQ)}
  ELSE {}

\* variant: the "if result" test is missing
AggregateNoNoneCheck(res, timedOut, raised, r) ==
  IF timedOut \/ raised THEN res
  ELSE Append(res, r)

\* the loop body's effect on results: lines 69-79
Aggregate(res, timedOut, raised, r) ==
  IF timedOut \/ raised THEN res
  ELSE IF r # 0 THEN Append(res, r)
  ELSE res

\* variant: the warning for a None result is missing
LoopFailureExceptionsOnly(timedOut, raised, r) ==
  IF timedOut THEN "timeout"
  ELSE IF raised THEN "pipe"
  ELSE "none"

\* the failure entry the loop body logs: "timeout", "pipe" (the warning for
\* a None result or the error for an exception) or nothing
LoopFailure(timedOut, raised, r) ==
  IF timedOut THEN "timeout"
  ELSE IF raised THEN "pipe"
  ELSE IF r # 0 THEN "none"
  ELSE "pipe"

\* one iteration of the for loop over as_completed(future_to_code); the body
\* calls future.result(timeout=TASK_TIMEOUT)
Collect(f) ==
  /\ phase = "collect"
  /\ f \in Yieldable
  /\ waiterQ' = IF f \in snapshot THEN waiterQ
                ELSE SelectSeq(waiterQ, LAMBDA x : x # f)
  /\ yielded' = Append(yielded, f)
  /\ LET timedOut == ResultWait(f) > TASK_TIMEOUT
         failure == LoopFailure(timedOut, raisedTask[f], ret[f])
     IN /\ results' = Aggregate(results, timedOut, raisedTask[f], ret[f])
        /\ log' = [log EXCEPT ![f].pipe = @ + (IF failure = "pipe" THEN 1 ELSE 0),
                              ![f].timeout = @ + (IF failure = "timeout" THEN 1 ELSE 0)]
        /\ acc' = acc \cup {Access(MainThread, "future", f, "r")}
                      \cup (IF results' # results
                              THEN {Access(MainThread, "results", 0, "w")} ELSE {})
  /\ UNCHANGED <<analyzer, heap, argWorkers, cfgWorkers, importsOk, nSym, phase,
                 submitted, pc, session, stock_data, fetched, sel, ret,
                 raisedTask, took, completed, snapshot, resolutions, aiVars, notice, fnVars>>

\* how one _send_notification call went: generate_dashboard_report returns
\* the report or raises; notifier.send, reached only with a report, returns
\* True, returns False or raises
NotifyOutcomes ==
  {<<"ok", "ok">>, <<"ok", "false">>, <<"ok", "raise">>, <<"raise", "none">>}

\* the try block of _send_notification
SendNotificationTryBlock(report, send) ==
  [raised |-> report = "raise" \/ send = "raise", logged |-> 0]

\* variant: the try/except around the notification is missing
SendNotificationNoHandler(report, send) == SendNotificationTryBlock(report, send)

\* _send_notification: "except Exception" logs the error and returns
SendNotification(report, send) ==
  LET body == SendNotificationTryBlock(report, send) IN
    IF body.raised THEN [raised |-> FALSE, logged |-> 1] ELSE body

\* a test that lets a dry run notify
ShouldNotifyInDryRun(res, send_notification, dry_run) ==
  res # <<>> /\ send_notification

\* run(), line 84: if results and send_notification and not dry_run
ShouldNotify(res, send_notification, dry_run) ==
  res # <<>> /\ send_notification /\ ~dry_run

\* as_completed is exhausted and the executor shuts down; run() then reads
\* its arguments dry_run and send_notification (line 84) and either goes on
\* to _send_notification or returns results
Return(dry_run, send_notification) ==
  /\ phase = "collect"
  /\ Len(yielded) = nSym
  /\ LET enter == ShouldNotify(results, send_notification, dry_run) IN
       /\ notice' = [NoNotice EXCEPT !.dry_run = dry_run,
                                     !.send_notification = send_notification,
                                     !.entered = enter]
       /\ phase' = IF enter THEN "notify" ELSE "done"
  /\ UNCHANGED <<analyzer, heap, argWorkers, cfgWorkers, importsOk, nSym,
                 submitted, pc, session, stock_data, fetched, sel, ret,
                 raisedTask, took, completed, snapshot, waiterQ, yielded,
                 results, log, acc, resolutions, aiVars, fnVars>>

\* self._send_notification(results), then "return results"; an exception
\* that leaves _send_notification leaves run() as well
Notify(report, send) ==
  /\ phase = "notify"
  /\ LET out == SendNotification(report, send) IN
       /\ notice' = [notice EXCEPT !.report = report, !.send = send,
                                   !.logged = out.logged]
       /\ phase' = IF out.raised THEN "raised" ELSE "done"
  /\ UNCHANGED <<analyzer, heap, argWorkers, cfgWorkers, importsOk, nSym,
                 submitted, pc, session, stock_data, fetched, sel, ret,
                 raisedTask, took, completed, snapshot, waiterQ, yielded,
                 results, log, acc, resolutions, aiVars, fnVars>>

QuoteOutcomes == {"ok", "missing", "timeout"}

KlineOutcomes == {"ok", "error"}

Next ==
  \/ Begin
  \/ Submit
  \/ AsCompleted
  \/ \E f \in Symbols : Collect(f)
  \/ \E d \in BOOLEAN, n \in BOOLEAN : Return(d, n)
  \/ \E o \in NotifyOutcomes : Notify(o[1], o[2])
  \/ \E s \in Symbols : StartTask(s)
  \/ \E s \in Symbols, o \in QuoteOutcomes : GetRealtime(s, o)
  \/ \E s \in Symbols, o \in KlineOutcomes : GetKline(s, o)
  \/ \E s \in Symbols : SelectBackend(s)
  \/ \E s \in Symbols, r \in PipeResponses, t \in BOOLEAN : InvokeBackend(s, r, t)

Spec == PipeInit /\ [][Next]_vars

(* ============== analyze_stock called outside the pipeline ============= *)

\* the object a caller passes to analyze_stock
AIInput == 1

\* the analyzers __init__ can build: every combination of api keys (the
\* DeepSeek key empty, 10 or 11 characters long), installed SDKs and SDK
\* constructors that succeed or raise
AIConfigs ==
  {[gemini_key_len |-> g, openai_key_len |-> o, deepseek_key_len |-> d] :
     g \in {0, 20}, o \in {0, 20}, d \in {0, DEEPSEEK_KEY_MIN, DEEPSEEK_KEY_MIN + 1}}

SDKs ==
  {[genai |-> a, genai_init |-> b, openai |-> c, openai_init |-> d] :
     a \in BOOLEAN, b \in BOOLEAN, c \in BOOLEAN, d \in BOOLEAN}

AITargets == {"combined", "deepseek", "openai", "gemini"}

AIChangePcts == {-30, 31}

\* the backends a call on target enters: CombinedAnalyzer.analyze_stock
\* delegates to the analyzer get_available_analyzer returned, if any
Entered(target, an) ==
  IF target = "combined"
    THEN (IF GetAvailableAnalyzer(an) = "none" THEN {} ELSE {GetAvailableAnalyzer(an)})
    ELSE {target}

AIInit ==
  /\ analyzer \in {InitAnalyzers(ai, sdk) : ai \in AIConfigs, sdk \in SDKs}
  /\ heap = [i \in ObjIds |-> NoResult]
  /\ resolutions = 0
  /\ PipeIdle
  /\ AIIdle
  /\ FnIdle

\* a caller builds a StockResult and calls analyze_stock of the combined
\* analyzer or of one backend object that exists; the combined analyzer
\* resolves its backend and returns the input when there is none
AIBegin(target, c) ==
  /\ aiPc = "idle"
  /\ aiCalls < MaxCalls
  /\ target # "combined" => analyzer[target].configured
  /\ LET input == BuildStockResult(AIInput, [name |-> AIInput, now |-> 10, change_pct |-> c],
                                   HISTORY_DAYS)
         entered == Entered(target, analyzer)
     IN /\ heap' = [heap EXCEPT ![AIInput] = input, ![NewObjOf(AIInput)] = NoResult]
        /\ aiBefore' = input
        /\ aiTarget' = target
        /\ aiInvoked' = entered
        /\ aiPc' = IF entered = {} THEN "returned" ELSE "resolved"
        /\ aiOut' = IF entered = {} THEN AIInput ELSE 0
        /\ aiRaised' = FALSE
        /\ resolutions' = IF target = "combined" THEN resolutions + 1 ELSE resolutions
  /\ UNCHANGED <<analyzer, pipeVars, fnVars, aiResp, aiCalls>>

\* the backend's analyze_stock runs against the reply resp
AIInvoke(resp) ==
  /\ aiPc = "resolved"
  /\ LET b == CHOOSE x \in aiInvoked : TRUE
         out == BackendAnalyzeStock(b, analyzer, heap, AIInput, NewObjOf(AIInput), resp)
     IN /\ heap' = out.heap
        /\ aiOut' = out.ret
        /\ aiRaised' = out.raised
  /\ aiResp' = resp
  /\ aiPc' = "returned"
  /\ UNCHANGED <<analyzer, resolutions, pipeVars, fnVars, aiTarget, aiBefore, aiInvoked, aiCalls>>

\* the caller has its result and may call again
AIReturn ==
  /\ aiPc = "returned"
  /\ aiPc' = "idle"
  /\ aiCalls' = aiCalls + 1
  /\ UNCHANGED <<analyzer, heap, resolutions, pipeVars, fnVars, aiTarget, aiBefore,
                 aiInvoked, aiResp, aiOut, aiRaised>>

NextAI ==
  \/ \E t \in AITargets, c \in AIChangePcts : AIBegin(t, c)
  \/ \E r \in Responses : AIInvoke(r)
  \/ AIReturn

SpecAI == AIInit /\ [][NextAI]_vars

(* ========================= signal derivation ========================== *)

\* a cell without a value (NaN); every comparison with it is false and
\* every difference with it is NaN again
NaN == -99

Sub(x, y) == IF x = NaN \/ y = NaN THEN NaN ELSE x - y

Gt(x, y) == x # NaN /\ y # NaN /\ x > y

Lt(x, y) == x # NaN /\ y # NaN /\ x < y

Ge(x, y) == x # NaN /\ y # NaN /\ x >= y

Le(x, y) == x # NaN /\ y # NaN /\ x <= y

\* a column of a DataFrame: absent, or one cell per row
NoSeries == [present |-> FALSE, cells |-> <<>>]

Series(cells) == [present |-> TRUE, cells |-> cells]

\* the three pairs _calculate_signals compares, each as <<a, b>> columns
Pairs == {"kdj", "macd", "trend"}

PairColumns ==
  [kdj |-> <<"kdj_k", "kdj_d">>, macd |-> <<"macd", "macd_signal">>,
   trend |-> <<"close", "zhixing_trend">>]

\* the test that guards each pair's block: both columns for KDJ and MACD,
\* the trend column alone for the trend pair (close is always there)
PairInFrame(fr, p) ==
  CASE p = "kdj" -> fr.kdj_k.present /\ fr.kdj_d.present
    [] p = "macd" -> fr.macd.present /\ fr.macd_signal.present
    [] OTHER -> fr.zhixing_trend.present

\* data[a] - data[b], row by row
Diff(fr, p) ==
  [i \in 1..fr.n |-> Sub(fr[PairColumns[p][1]].cells[i], fr[PairColumns[p][2]].cells[i])]

\* variant: shift(1) fills the first row with 0
ShiftZeroFill(q) == [i \in 1..Len(q) |-> IF i = 1 THEN 0 ELSE q[i - 1]]

\* Series.shift(1): every value moves one row down, the first row gets NaN
Shift(q) == [i \in 1..Len(q) |-> IF i = 1 THEN NaN ELSE q[i - 1]]

\* variant: the previous difference must be strictly negative
BuyFlagsStrict(d) == [i \in 1..Len(d) |-> Gt(d[i], 0) /\ Lt(Shift(d)[i], 0)]

\* (diff > 0) & (diff.shift(1) <= 0)
BuyFlags(d) == [i \in 1..Len(d) |-> Gt(d[i], 0) /\ Le(Shift(d)[i], 0)]

\* variant: the two comparisons of the sell test are applied to the wrong rows
SellFlagsLagged(d) == [i \in 1..Len(d) |-> Lt(Shift(d)[i], 0) /\ Ge(d[i], 0)]

\* (diff < 0) & (diff.shift(1) >= 0)
SellFlags(d) == [i \in 1..Len(d) |-> Lt(d[i], 0) /\ Ge(Shift(d)[i], 0)]

\* one pair's block: its two flag columns, if the pair is in the frame
PairSignals(fr, p) ==
  IF PairInFrame(fr, p)
    THEN [buy |-> Series(BuyFlags(Diff(fr, p))), sell |-> Series(SellFlags(Diff(fr, p)))]
    ELSE [buy |-> NoSeries, sell |-> NoSeries]

\* variant: the MACD column is left out of the loop
CombineWithoutMacd(n, kdj, macd, trend) ==
  [i \in 1..n |-> \/ kdj.present /\ kdj.cells[i]
                  \/ trend.present /\ trend.cells[i]]

\* data["signal_buy"] = False, then |= each of the three columns that exists
Combine(n, kdj, macd, trend) ==
  [i \in 1..n |-> \/ kdj.present /\ kdj.cells[i]
                  \/ macd.present /\ macd.cells[i]
                  \/ trend.present /\ trend.cells[i]]

\* _calculate_signals(data): the columns it adds to the frame
CalculateSignals(fr) ==
  LET kdj == PairSignals(fr, "kdj")
      macd == PairSignals(fr, "macd")
      trend == PairSignals(fr, "trend")
  IN [kind |-> "signals",
      kdj |-> kdj, macd |-> macd, trend |-> trend,
      signal_buy |-> Combine(fr.n, kdj.buy, macd.buy, trend.buy),
      signal_sell |-> Combine(fr.n, kdj.sell, macd.sell, trend.sell)]

\* the values the a and the b column of the pair under study range over
AValues == {NaN, 0, 1, 2}

BValues == {NaN, 1}

\* fixed shapes for the two other pairs: the pair is not in the frame, only
\* its a column is, a crosses above b at the second row, a crosses below b
\* at the second row
Shapes == {"absent", "a_only", "up", "down"}

ShapeColumns(shape, n) ==
  CASE shape = "absent" -> <<NoSeries, NoSeries>>
    [] shape = "a_only" -> <<Series([i \in 1..n |-> 1]), NoSeries>>
    [] shape = "up" -> <<Series([i \in 1..n |-> IF i = 1 THEN 0 ELSE 2]),
                         Series([i \in 1..n |-> 1])>>
    [] OTHER -> <<Series([i \in 1..n |-> IF i = 1 THEN 2 ELSE 0]),
                  Series([i \in 1..n |-> 1])>>

\* a frame of n rows from the two columns of each pair; close is a column of
\* every frame
FrameOf(n, cols) ==
  [n |-> n,
   kdj_k |-> cols.kdj[1], kdj_d |-> cols.kdj[2],
   macd |-> cols.macd[1], macd_signal |-> cols.macd[2],
   close |-> IF cols.trend[1].present THEN cols.trend[1] ELSE Series([i \in 1..n |-> 1]),
   zhixing_trend |-> cols.trend[2]]

\* a frame of 1..MaxBars rows: one pair with arbitrary cells, the two others
\* in one of the fixed shapes
SigInit ==
  /\ analyzer = InitAnalyzers([gemini_key_len |-> 0, openai_key_len |-> 0,
                               deepseek_key_len |-> 0], AllSDK)
  /\ heap = [i \in ObjIds |-> NoResult]
  /\ resolutions = 0
  /\ PipeIdle
  /\ AIIdle
  /\ IndIdle
  /\ RuleIdle
  /\ AuxIdle
  /\ \E n \in 1..MaxBars, focus \in Pairs :
       \E a \in [1..n -> AValues], b \in [1..n -> BValues], shape \in [Pairs -> Shapes] :
         frame = FrameOf(n, [p \in Pairs |->
                               IF p = focus THEN <<Series(a), Series(b)>>
                               ELSE ShapeColumns(shape[p], n)])
  /\ signals = NotCalled

\* one call of _calculate_signals on the frame
CallCalculateSignals ==
  /\ signals = NotCalled
  /\ signals' = CalculateSignals(frame)
  /\ UNCHANGED <<analyzer, heap, resolutions, pipeVars, aiVars, indVars, ruleVars, auxVars, frame>>

\* latest = result_df.iloc[-1]: the combined flags of the last row
LatestSignals(sig, n) == [signal_buy |-> sig.signal_buy[n], signal_sell |-> sig.signal_sell[n]]

\* a report that looks at the buy flag first
BuildReportAdviceBuyFirst(latest) ==
  IF latest.signal_buy THEN "buy"
  ELSE IF latest.signal_sell THEN "sell"
  ELSE "watch"

\* _build_report, the combined signal: sell, else buy, else watch
BuildReportAdvice(latest) ==
  IF latest.signal_sell THEN "sell"
  ELSE IF latest.signal_buy THEN "buy"
  ELSE "watch"

\* StockAnalysisSkill.analyze_stock builds the report from the last row of
\* the frame the signals were added to
CallBuildReport ==
  /\ signals # NotCalled
  /\ advice = NotCalled
  /\ advice' = [kind |-> "advice",
                signal |-> BuildReportAdvice(LatestSignals(signals, frame.n))]
  /\ UNCHANGED <<analyzer, heap, resolutions, pipeVars, aiVars, sigVars, indVars,
                 ruleVars, cfgVars, numVars, codeVars>>

NextSig ==
  \/ CallCalculateSignals
  \/ CallBuildReport

SpecSig == SigInit /\ [][NextSig]_vars

(* ======================== the indicator engine ======================== *)

\* An indicator column is abstracted to whether the frame has it and to the
\* index of its first defined cell (rows are numbered from 0); a column of
\* L rows whose first defined cell is L is undefined in every row.
AbsentColumn == [present |-> FALSE, first |-> 0]

Column(first) == [present |-> TRUE, first |-> first]

\* what one indicator function hands back: an exception or a series
Raises == [raised |-> TRUE, first |-> 0]

Computed(first) == [raised |-> FALSE, first |-> first]

\* Series.rolling(window).mean()/min()/max() over L rows defined from row
\* from: the first window-1 of them give no value
Rolling(from, window, L) == Min(from + window - 1, L)

\* the single computations a call may see fail
Faults == {"none", "kdj", "macd", "bbi", "rsi", "sma", "ema", "trend", "multi", "oscillator"}

\* calculate_sma: no handler of its own
CalculateSma(L, window, f) ==
  IF f = "sma" THEN Raises ELSE Computed(Rolling(0, window, L))

\* calculate_ema: ewm(adjust=False) has a value from the first row on
CalculateEma(L, f) ==
  IF f = "ema" THEN Raises ELSE Computed(0)

\* calculate_kdj: the rolling low/high of KDJ_N rows, then two ewm passes
CalculateKdj(L, f) ==
  IF f = "kdj" THEN Raises ELSE Computed(Rolling(0, KDJ_N, L))

\* calculate_macd: three calculate_ema calls
CalculateMacd(L, f) ==
  IF f = "macd" \/ CalculateEma(L, f).raised THEN Raises ELSE Computed(0)

\* calculate_rsi: diff, where(..., 0), rolling(window).mean()
CalculateRsi(L, f) ==
  IF f = "rsi" THEN Raises ELSE Computed(Rolling(0, RSI_PERIOD, L))

\* calculate_bbi: the mean of calculate_sma over BBI_PERIODS
CalculateBbi(L, f) ==
  IF f = "bbi" \/ \E i \in 1..Len(BBI_PERIODS) : CalculateSma(L, BBI_PERIODS[i], f).raised
    THEN Raises
  ELSE LET firsts == {CalculateSma(L, BBI_PERIODS[i], f).first : i \in 1..Len(BBI_PERIODS)}
       IN Computed(CHOOSE m \in firsts : \A x \in firsts : x <= m)

\* calculate_zhixing_trend_line: its own "except Exception" returns an
\* all-undefined series over the same index
CalculateZhixingTrendLine(L, f) ==
  IF f = "trend" THEN Computed(L) ELSE Computed(0)

\* calculate_zhixing_multi_line: likewise caught inside
CalculateZhixingMultiLine(L, f) ==
  IF f = "multi" THEN Computed(L)
  ELSE LET firsts == {Rolling(0, ZHIXING_MULTI_PERIODS[i], L) : i \in 1..Len(ZHIXING_MULTI_PERIODS)}
       IN Computed(CHOOSE m \in firsts : \A x \in firsts : x <= m)

\* _calculate_signals, as far as the columns it adds: a pair's two flag
\* columns exist iff the pair's indicator columns do; signal_buy and
\* signal_sell always exist.  Flag columns are boolean, defined in every row.
SignalColumns(ind) ==
  LET flag(p) == IF p THEN Column(0) ELSE AbsentColumn
      kdj == ind.kdj_k.present /\ ind.kdj_d.present
      macd == ind.macd.present /\ ind.macd_signal.present
      trend == ind.zhixing_trend.present
  IN [signal_buy_kdj |-> flag(kdj), signal_sell_kdj |-> flag(kdj),
      signal_buy_macd |-> flag(macd), signal_sell_macd |-> flag(macd),
      signal_buy_trend |-> flag(trend), signal_sell_trend |-> flag(trend),
      signal_buy |-> Column(0), signal_sell |-> Column(0)]

\* variant: MACD is gated like KDJ
MacdGateLikeKdj == MIN_DAYS_FOR_KDJ

\* the bar count from which calculate_all_indicators computes MACD
MacdGate == MIN_DAYS_FOR_MACD

\* calculate_all_indicators over L rows (L = -1: data is None) when the
\* computation f fails.  Only the two zhixing functions catch their own
\* exceptions; any other indicator that raises ends the call, which has no
\* handler itself.  calculate_oscillator is not called here.
CalculateAllIndicators(L, f) ==
  LET gated(cond, r) == IF cond THEN Column(r.first) ELSE AbsentColumn
      kdj == CalculateKdj(L, f)
      macd == CalculateMacd(L, f)
      bbi == CalculateBbi(L, f)
      trend == CalculateZhixingTrendLine(L, f)
      multi == CalculateZhixingMultiLine(L, f)
      rsi == CalculateRsi(L, f)
      raised ==
        \/ L >= MIN_DAYS_FOR_KDJ /\ kdj.raised
        \/ L >= MacdGate /\ macd.raised
        \/ L >= MIN_DAYS_FOR_BBI /\ bbi.raised
        \/ \E n \in DOMAIN MA_PERIODS :
             L >= MA_PERIODS[n] /\ CalculateSma(L, MA_PERIODS[n], f).raised
        \/ \E n \in DOMAIN EMA_PERIODS :
             L >= EMA_PERIODS[n] /\ CalculateEma(L, f).raised
        \/ L >= RSI_PERIOD /\ rsi.raised
      ind ==
        [kdj_k |-> gated(L >= MIN_DAYS_FOR_KDJ, kdj),
         kdj_d |-> gated(L >= MIN_DAYS_FOR_KDJ, kdj),
         kdj_j |-> gated(L >= MIN_DAYS_FOR_KDJ, kdj),
         macd |-> gated(L >= MacdGate, macd),
         macd_signal |-> gated(L >= MacdGate, macd),
         macd_hist |-> gated(L >= MacdGate, macd),
         bbi |-> gated(L >= MIN_DAYS_FOR_BBI, bbi),
         zhixing_trend |-> Column(trend.first),
         zhixing_multi |-> gated(L >= MIN_DAYS_FOR_ZHIXING_MULTI, multi),
         ma5 |-> gated(L >= MA_PERIODS.ma5, CalculateSma(L, MA_PERIODS.ma5, f)),
         ma10 |-> gated(L >= MA_PERIODS.ma10, CalculateSma(L, MA_PERIODS.ma10, f)),
         ma20 |-> gated(L >= MA_PERIODS.ma20, CalculateSma(L, MA_PERIODS.ma20, f)),
         ma30 |-> gated(L >= MA_PERIODS.ma30, CalculateSma(L, MA_PERIODS.ma30, f)),
         ma60 |-> gated(L >= MA_PERIODS.ma60, CalculateSma(L, MA_PERIODS.ma60, f)),
         ema13 |-> gated(L >= EMA_PERIODS.ema13, CalculateEma(L, f)),
         rsi |-> gated(L >= RSI_PERIOD, rsi)]
  IN IF L < MIN_DATA_DAYS \div 4 THEN [kind |-> "none"]
     ELSE IF raised THEN [kind |-> "raised"]
     ELSE [kind |-> "frame", bars |-> L, cols |-> ind @@ SignalColumns(ind)]

\* a history of None or of 0..MaxHistory bars is about to be analyzed
IndInit ==
  /\ analyzer = InitAnalyzers([gemini_key_len |-> 0, openai_key_len |-> 0,
                               deepseek_key_len |-> 0], AllSDK)
  /\ heap = [i \in ObjIds |-> NoResult]
  /\ resolutions = 0
  /\ PipeIdle
  /\ AIIdle
  /\ SigIdle
  /\ RuleIdle
  /\ AuxIdle
  /\ bars \in -1..MaxHistory
  /\ fault = "none"
  /\ indResult = NotCalled

\* one call of calculate_all_indicators, during which the computation f
\* raises (f = "none": nothing does)
CallCalculateAllIndicators(f) ==
  /\ indResult = NotCalled
  /\ fault' = f
  /\ indResult' = CalculateAllIndicators(bars, f)
  /\ UNCHANGED <<analyzer, heap, resolutions, pipeVars, aiVars, sigVars, ruleVars, auxVars, bars>>

NextInd == \E f \in Faults : CallCalculateAllIndicators(f)

SpecInd == IndInit /\ [][NextInd]_vars

(* ================ the rules of the stock analysis skill ================ *)

\* a cell without a value (NaN)
Undefined == -1

\* the values the last row holds where it is defined, in hundredths
LatestValues == [ma5 |-> 1010, ma10 |-> 1005, ma20 |-> 990]

\* the live quote, in hundredths, with the change percent c
RuleQuote(c) == [high |-> 1080, open |-> 1000, change_pct |-> c]

\* latest[name] on the last row of a frame: a KeyError when the frame has no
\* such column, NaN when the column has no value there
LatestLookup(result, name) ==
  IF ~result.cols[name].present THEN [raised |-> TRUE, value |-> Undefined]
  ELSE [raised |-> FALSE,
        value |-> IF result.cols[name].first < result.bars
                    THEN LatestValues[name] ELSE Undefined]

\* the tuple a branch of _get_support_resistance returns; building it
\* evaluates both lookups
LevelsOf(supportLabel, supportCell, resistanceLabel, resistanceCell) ==
  IF supportCell.raised \/ resistanceCell.raised THEN [kind |-> "raised"]
  ELSE [kind |-> "levels",
        support |-> <<supportLabel, supportCell.value>>,
        resistance |-> <<resistanceLabel, resistanceCell.value>>]

\* StockAnalysisSkill._get_support_resistance(change_pct, latest,
\* current_data), latest being the last row of result
GetSupportResistance(c, result, current_data) ==
  LET quoted(v) == [raised |-> FALSE, value |-> v] IN
  IF Abs(c) > CHANGE_PCT_HIGH
    THEN (IF c > 0
            THEN LevelsOf("MA5", LatestLookup(result, "ma5"),
                          "DayHigh", quoted(current_data.high))
            ELSE LevelsOf("MA20", LatestLookup(result, "ma20"),
                          "OpenPrice", quoted(current_data.open)))
  ELSE IF Abs(c) <= CHANGE_PCT_MEDIUM
    THEN LevelsOf("MA20", LatestLookup(result, "ma20"),
                  "MA10", LatestLookup(result, "ma10"))
  ELSE LevelsOf("MA10", LatestLookup(result, "ma10"),
                "MA5", LatestLookup(result, "ma5"))

\* the skill has a frame (calculate_all_indicators did not return None) and
\* a quote whose change percent is within +-MaxChangePct tenths
RuleInit ==
  /\ analyzer = InitAnalyzers([gemini_key_len |-> 0, openai_key_len |-> 0,
                               deepseek_key_len |-> 0], AllSDK)
  /\ heap = [i \in ObjIds |-> NoResult]
  /\ resolutions = 0
  /\ PipeIdle
  /\ AIIdle
  /\ SigIdle
  /\ AuxIdle
  /\ bars \in (MIN_DATA_DAYS \div 4)..MaxHistory
  /\ fault = "none"
  /\ indResult = CalculateAllIndicators(bars, "none")
  /\ changePercent \in -MaxChangePct..MaxChangePct
  /\ levels = NotCalled
  /\ sentiment = <<0, "not_called">>

\* analyze_stock / analyze_stock_with_ai: the support and resistance levels
CallGetSupportResistance ==
  /\ levels = NotCalled
  /\ levels' = GetSupportResistance(changePercent, indResult, RuleQuote(changePercent))
  /\ UNCHANGED <<analyzer, heap, resolutions, pipeVars, aiVars, sigVars, indVars,
                 auxVars, changePercent, sentiment>>

\* analyze_stock_with_ai / analyze_single_stock: the rule-based sentiment
CallCalculateBasicSentiment ==
  /\ sentiment[2] = "not_called"
  /\ sentiment' = CalculateBasicSentiment(changePercent)
  /\ UNCHANGED <<analyzer, heap, resolutions, pipeVars, aiVars, sigVars, indVars,
                 auxVars, changePercent, levels>>

NextRule ==
  \/ CallGetSupportResistance
  \/ CallCalculateBasicSentiment

SpecRule == RuleInit /\ [][NextRule]_vars

(* ================== the configuration singleton ======================= *)

\* every other part of the program is idle
ProgramIdle ==
  /\ analyzer = InitAnalyzers([gemini_key_len |-> 0, openai_key_len |-> 0,
                               deepseek_key_len |-> 0], AllSDK)
  /\ heap = [i \in ObjIds |-> NoResult]
  /\ resolutions = 0
  /\ PipeIdle
  /\ AIIdle
  /\ SigIdle
  /\ IndIdle
  /\ RuleIdle

\* get_config: builds a new Config from the environment, or raises when a
\* numeric variable (MAX_WORKERS, GEMINI_TEMPERATURE, ...) does not parse
GetConfigOutcomes == {"ok", "raises"}

\* a get_global_config that builds a Config on every call
NeedsLoadAlways(cached) == TRUE

\* get_global_config: `if _config is None`
NeedsLoad(cached) == cached = 0

\* one finished call: the operation, the instance it returned (0 = it
\* raised) and whether get_config built that instance during the call
ConfigCall(op, returned, made) == [op |-> op, ret |-> returned, made |-> made]

CfgInit ==
  /\ ProgramIdle
  /\ ReportIdle
  /\ NumIdle
  /\ CodeIdle
  /\ globalConfig = 0
  /\ cfgCreated = 0
  /\ cfgTrace = <<>>

\* get_global_config()
GetGlobalConfig(outcome) ==
  /\ Len(cfgTrace) < MaxConfigCalls
  /\ IF NeedsLoad(globalConfig)
     THEN IF outcome = "ok"
          THEN /\ globalConfig' = cfgCreated + 1
               /\ cfgCreated' = cfgCreated + 1
               /\ cfgTrace' = Append(cfgTrace, ConfigCall("get", cfgCreated + 1, TRUE))
          ELSE /\ cfgTrace' = Append(cfgTrace, ConfigCall("get", 0, FALSE))
               /\ UNCHANGED <<globalConfig, cfgCreated>>
     ELSE /\ outcome = "ok"
          /\ cfgTrace' = Append(cfgTrace, ConfigCall("get", globalConfig, FALSE))
          /\ UNCHANGED <<globalConfig, cfgCreated>>
  /\ UNCHANGED <<analyzer, heap, resolutions, pipeVars, aiVars, sigVars, indVars,
                 ruleVars, advice, numVars, codeVars>>

\* reload_config()
ReloadConfig(outcome) ==
  /\ Len(cfgTrace) < MaxConfigCalls
  /\ IF outcome = "ok"
     THEN /\ globalConfig' = cfgCreated + 1
          /\ cfgCreated' = cfgCreated + 1
          /\ cfgTrace' = Append(cfgTrace, ConfigCall("reload", cfgCreated + 1, TRUE))
     ELSE /\ cfgTrace' = Append(cfgTrace, ConfigCall("reload", 0, FALSE))
          /\ UNCHANGED <<globalConfig, cfgCreated>>
  /\ UNCHANGED <<analyzer, heap, resolutions, pipeVars, aiVars, sigVars, indVars,
                 ruleVars, advice, numVars, codeVars>>

NextCfg ==
  \/ \E outcome \in GetConfigOutcomes : GetGlobalConfig(outcome)
  \/ \E outcome \in GetConfigOutcomes : ReloadConfig(outcome)

SpecCfg == CfgInit /\ [][NextCfg]_vars

(* ================= the numeric indicator functions ==================== *)
(* Values are exact: a result is a fraction [num, den] of integers, and    *)
(* den = 0 stands for NaN.  An input value is an integer or NaN.           *)

Frac(n, d) == [num |-> n, den |-> d]

\* NaN as a result value
NaNFrac == Frac(0, 0)

IsNaN(q) == q.den = 0

\* Series.rolling(window): the observations in the window ending at row i,
\* kept as pandas keeps them: the count and the sum of the non-NaN values,
\* each row added on entering the window and removed on leaving it
RECURSIVE RollingState(_, _, _)
RollingState(data, w, i) ==
  IF i = 0 THEN [nobs |-> 0, sum |-> 0]
  ELSE LET before == RollingState(data, w, i - 1)
           added == IF data[i] # NaN
                    THEN [nobs |-> before.nobs + 1, sum |-> before.sum + data[i]]
                    ELSE before
       IN IF i > w /\ data[i - w] # NaN
          THEN [nobs |-> added.nobs - 1, sum |-> added.sum - data[i - w]]
          ELSE added

\* a rolling mean that reports the mean of the rows seen so far while the
\* window is not yet full (min_periods = 1)
RollingMeanFromStart(data, w) ==
  [i \in 1..Len(data) |->
     LET st == RollingState(data, w, i)
     IN IF st.nobs >= 1 THEN Frac(st.sum, st.nobs) ELSE NaNFrac]

\* Series.rolling(window=w).mean(): min_periods defaults to the window
RollingMean(data, w) ==
  [i \in 1..Len(data) |->
     LET st == RollingState(data, w, i)
     IN IF st.nobs >= w THEN Frac(st.sum, st.nobs) ELSE NaNFrac]

\* calculate_sma(data, window)
calculate_sma(data, w) == RollingMean(data, w)

\* the values an input series holds
PriceValues == 0..MaxPrice

\* a series of up to MaxSeriesLen prices, some of them NaN, and a window
SmaInit ==
  /\ ProgramIdle
  /\ ReportIdle
  /\ CfgIdle
  /\ CodeIdle
  /\ \E n \in 1..MaxSeriesLen :
       \E data \in [1..n -> PriceValues \cup {NaN}] :
         series = [close |-> data]
  /\ windowArg \in 1..(MaxSeriesLen + 1)
  /\ numOut = NotCalled

\* one call of calculate_sma on the series
CallCalculateSma ==
  /\ numOut = NotCalled
  /\ numOut' = [kind |-> "sma", values |-> calculate_sma(series.close, windowArg)]
  /\ UNCHANGED <<analyzer, heap, resolutions, pipeVars, aiVars, sigVars, indVars,
                 ruleVars, advice, cfgVars, codeVars, series, windowArg>>

NextSma == CallCalculateSma

SpecSma == SmaInit /\ [][NextSma]_vars

(* ---------------------------- calculate_kdj --------------------------- *)

RECURSIVE GCD(_, _)
GCD(a, b) == IF b = 0 THEN a ELSE GCD(b, a % b)

\* the fraction n/d (d > 0) in lowest terms
Reduce(n, d) == LET g == GCD(Abs(n), d) IN Frac(n \div g, d \div g)

\* a + b, over the least common denominator
FracAdd(a, b) ==
  LET l == (a.den \div GCD(a.den, b.den)) * b.den
  IN Reduce(a.num * (l \div a.den) + b.num * (l \div b.den), l)

\* q * n / d
FracScale(q, n, d) == Reduce(q.num * n, q.den * d)

\* a <= b
FracLe(a, b) == a.num * b.den <= b.num * a.den

\* the least and the greatest of a non-empty set of numbers
SetMin(S) == CHOOSE x \in S : \A y \in S : x <= y

SetMax(S) == CHOOSE x \in S : \A y \in S : y <= x

\* Series.rolling(window=n).min() / .max() of a series without NaN
RollingMin(data, n) ==
  [i \in 1..Len(data) |->
     IF i < n THEN NaN ELSE SetMin({data[j] : j \in (i - n + 1)..i})]

RollingMax(data, n) ==
  [i \in 1..Len(data) |->
     IF i < n THEN NaN ELSE SetMax({data[j] : j \in (i - n + 1)..i})]

\* an RSV taken against the range of the current bar alone
RsvOfCurrentBar(high, low, close, n) ==
  [i \in 1..Len(close) |->
     IF RollingMin(low, n)[i] = NaN \/ RollingMax(high, n)[i] = NaN
     THEN NaNFrac
     ELSE Reduce((close[i] - RollingMin(low, n)[i]) * 100,
                 high[i] - low[i] + EPSILON)]

\* rsv = (close - lowest_low) / (highest_high - lowest_low + EPSILON) * 100
Rsv(high, low, close, n) ==
  [i \in 1..Len(close) |->
     IF RollingMin(low, n)[i] = NaN \/ RollingMax(high, n)[i] = NaN
     THEN NaNFrac
     ELSE Reduce((close[i] - RollingMin(low, n)[i]) * 100,
                 RollingMax(high, n)[i] - RollingMin(low, n)[i] + EPSILON)]

\* Series.ewm(alpha=1/m, adjust=False).mean() at row i of a series whose
\* NaN rows all come first: NaN until the first value, that value, then
\* y[i] = (1 - 1/m) * y[i-1] + (1/m) * x[i]
RECURSIVE EwmAt(_, _, _)
EwmAt(x, m, i) ==
  IF i = 0 THEN NaNFrac
  ELSE LET before == EwmAt(x, m, i - 1)
       IN IF IsNaN(x[i]) THEN before
          ELSE IF IsNaN(before) THEN x[i]
          ELSE FracAdd(FracScale(before, m - 1, m), FracScale(x[i], 1, m))

Ewm(x, m) == [i \in 1..Len(x) |-> EwmAt(x, m, i)]

\* 3 * k - 2 * d
JLine(k, d) ==
  [i \in 1..Len(k) |->
     IF IsNaN(k[i]) \/ IsNaN(d[i]) THEN NaNFrac
     ELSE FracAdd(FracScale(k[i], 3, 1), FracScale(d[i], -2, 1))]

\* calculate_kdj(high, low, close, n, m1, m2)
calculate_kdj(high, low, close, n, m1, m2) ==
  LET k == Ewm(Rsv(high, low, close, n), m1)
      d == Ewm(k, m2)
  IN [kind |-> "kdj", k |-> k, d |-> d, j |-> JLine(k, d)]

\* the prices of one bar: low <= high, the close anywhere on the price grid
KdjBars ==
  {b \in [low : 0..MaxKdjPrice, close : 0..MaxKdjPrice, high : 0..MaxKdjPrice] :
     b.low <= b.high}

\* the size of one price level: EPSILON itself or a much larger step
PriceScales == {EPSILON, BigStep}

\* up to MaxKdjBars bars on a price grid, and an RSV period
KdjInit ==
  /\ ProgramIdle
  /\ ReportIdle
  /\ CfgIdle
  /\ CodeIdle
  /\ \E n \in 1..MaxKdjBars, scale \in PriceScales :
       \E b \in [1..n -> KdjBars] :
         series = [high  |-> [i \in 1..n |-> b[i].high * scale],
                   low   |-> [i \in 1..n |-> b[i].low * scale],
                   close |-> [i \in 1..n |-> b[i].close * scale]]
  /\ windowArg \in {1, MaxKdjBars - 1}
  /\ numOut = NotCalled

\* one call of calculate_kdj with the default smoothing periods
CallCalculateKdj ==
  /\ numOut = NotCalled
  /\ numOut' = calculate_kdj(series.high, series.low, series.close, windowArg,
                             KDJ_M1, KDJ_M2)
  /\ UNCHANGED <<analyzer, heap, resolutions, pipeVars, aiVars, sigVars, indVars,
                 ruleVars, advice, cfgVars, codeVars, series, windowArg>>

NextKdj == CallCalculateKdj

SpecKdj == KdjInit /\ [][NextKdj]_vars

(* ---------------------------- calculate_rsi --------------------------- *)

\* a / b for b > 0
FracDiv(a, b) == Reduce(a.num * b.den, a.den * b.num)

\* a - b
FracSub(a, b) == FracAdd(a, FracScale(b, -1, 1))

\* close.diff() at row i > 1
DeltaAt(close, i) == close[i] - close[i - 1]

\* a gain series that counts every move, up or down, as a gain
GainsAbsolute(close) ==
  [i \in 1..Len(close) |-> IF i = 1 THEN 0 ELSE Abs(DeltaAt(close, i))]

\* delta.where(delta > 0, 0): the first row's delta is NaN, NaN > 0 is
\* false, so the row holds 0
Gains(close) ==
  [i \in 1..Len(close) |->
     IF i > 1 /\ DeltaAt(close, i) > 0 THEN DeltaAt(close, i) ELSE 0]

\* -delta.where(delta < 0, 0)
Losses(close) ==
  [i \in 1..Len(close) |->
     IF i > 1 /\ DeltaAt(close, i) < 0 THEN -DeltaAt(close, i) ELSE 0]

\* rs = gain / (loss + EPSILON); rsi = 100 - (100 / (1 + rs))
RsiOf(gain, loss) ==
  IF IsNaN(gain) \/ IsNaN(loss) THEN NaNFrac
  ELSE LET rs == FracDiv(gain, FracAdd(loss, Frac(EPSILON, 1)))
       IN FracSub(Frac(100, 1), FracDiv(Frac(100, 1), FracAdd(Frac(1, 1), rs)))

\* calculate_rsi(close, window)
calculate_rsi(close, w) ==
  LET gain == RollingMean(Gains(close), w)
      loss == RollingMean(Losses(close), w)
  IN [i \in 1..Len(close) |-> RsiOf(gain[i], loss[i])]

\* the day-to-day moves of a close series, in units of EPSILON
StepValues == {-BigStep, -1, 0, 1, BigStep}

\* the closes that start at `first` and move by the given steps
RECURSIVE CloseAt(_, _, _)
CloseAt(first, steps, i) ==
  IF i = 1 THEN first ELSE CloseAt(first, steps, i - 1) + steps[i - 1]

\* RSI_PERIOD .. MaxRsiBars closes: one step size throughout, except for one
\* day that moves by another
RsiInit ==
  /\ ProgramIdle
  /\ ReportIdle
  /\ CfgIdle
  /\ CodeIdle
  /\ \E n \in RSI_PERIOD..MaxRsiBars, usual \in StepValues, other \in StepValues :
       \E day \in 1..(n - 1) :
         series = [close |-> [i \in 1..n |->
                      CloseAt(MaxRsiBars * BigStep,
                              [j \in 1..(n - 1) |-> IF j = day THEN other ELSE usual],
                              i)]]
  /\ windowArg = RSI_PERIOD
  /\ numOut = NotCalled

\* one call of calculate_rsi with the default window
CallCalculateRsi ==
  /\ numOut = NotCalled
  /\ numOut' = [kind |-> "rsi", values |-> calculate_rsi(series.close, windowArg)]
  /\ UNCHANGED <<analyzer, heap, resolutions, pipeVars, aiVars, sigVars, indVars,
                 ruleVars, advice, cfgVars, codeVars, series, windowArg>>

NextRsi == CallCalculateRsi

SpecRsi == RsiInit /\ [][NextRsi]_vars

(* ======================= normalize_stock_code ========================= *)
(* A string is a sequence of one-character strings.                        *)

Digits == {"0", "1", "2", "3", "4", "5", "6", "7", "8", "9"}

\* str.lower / str.upper on the letters the model uses
LowerChar(c) ==
  CASE c = "S" -> "s" [] c = "H" -> "h" [] c = "Z" -> "z" [] c = "B" -> "b"
    [] c = "J" -> "j" [] c = "A" -> "a" [] c = "X" -> "x" [] OTHER -> c

UpperChar(c) ==
  CASE c = "s" -> "S" [] c = "h" -> "H" [] c = "z" -> "Z" [] c = "b" -> "B"
    [] c = "j" -> "J" [] c = "a" -> "A" [] c = "x" -> "X" [] OTHER -> c

Lower(str) == [i \in 1..Len(str) |-> LowerChar(str[i])]

Upper(str) == [i \in 1..Len(str) |-> UpperChar(str[i])]

\* str.strip(): drop the white space at both ends
RECURSIVE LStrip(_)
LStrip(str) == IF str # <<>> /\ Head(str) = " " THEN LStrip(Tail(str)) ELSE str

RECURSIVE RStrip(_)
RStrip(str) ==
  IF str # <<>> /\ str[Len(str)] = " "
  THEN RStrip(SubSeq(str, 1, Len(str) - 1)) ELSE str

Strip(str) == RStrip(LStrip(str))

\* STOCK_CODE_PATTERN = ^[0-9]{6}$
MatchesStockCodePattern(str) ==
  Len(str) = CODE_DIGITS /\ \A i \in 1..Len(str) : str[i] \in Digits

\* ("sh", "sz", "bj")
MarketPrefixes == {<<"s", "h">>, <<"s", "z">>, <<"b", "j">>}

NoCode == [kind |-> "none"]

Code(str) == [kind |-> "str", value |-> str]

\* normalize_stock_code(code); the empty sequence stands for "" and for None
NormalizeStockCode(code) ==
  IF code = <<>> THEN NoCode
  ELSE LET stripped == Strip(code)
       IN IF Len(stripped) = PREFIXED_LEN /\ Lower(SubSeq(stripped, 1, 2)) \in MarketPrefixes
          THEN Code(SubSeq(stripped, 3, Len(stripped)))
          ELSE IF MatchesStockCodePattern(stripped) THEN Code(stripped)
          ELSE IF Upper(stripped) = <<"1", "A", "0", "0", "0", "1">>
               THEN Code(<<"0", "0", "0", "0", "0", "1">>)
          ELSE NoCode

\* what precedes the body of a code: nothing, a market prefix in some case,
\* or two other letters
CodePrefixes == {<<>>, <<"s", "h">>, <<"S", "Z">>, <<"b", "J">>, <<"x", "x">>}

\* the characters of the body of a code
BodyChars == {"0", "6", "a"}

\* white space around the code
Paddings == {<<>>, <<" ">>}

\* a prefix and up to MaxBodyLen body characters, or the special index
\* code, with or without white space around it
CodeInit ==
  /\ ProgramIdle
  /\ ReportIdle
  /\ CfgIdle
  /\ NumIdle
  /\ \E pad \in Paddings :
       \/ \E prefix \in CodePrefixes, n \in 0..MaxBodyLen :
            \E body \in [1..n -> BodyChars] : codeIn = pad \o prefix \o body \o pad
       \/ \E special \in {<<"1", "A", "0", "0", "0", "1">>, <<"1", "a", "0", "0", "0", "1">>} :
            codeIn = pad \o special \o pad
  /\ codeOut = NotCalled

\* one call of normalize_stock_code
CallNormalizeStockCode ==
  /\ codeOut = NotCalled
  /\ codeOut' = NormalizeStockCode(codeIn)
  /\ UNCHANGED <<analyzer, heap, resolutions, pipeVars, aiVars, sigVars, indVars,
                 ruleVars, advice, cfgVars, numVars, codeIn>>

NextCode == CallNormalizeStockCode

SpecCode == CodeInit /\ [][NextCode]_vars

(* ===================== properties of the pipeline ===================== *)

\* the symbol a result object belongs to
SymOf(id) == IF id > MaxSymbols THEN id - MaxSymbols ELSE id

\* the symbols of this run
Requested == 1..nSym

\* a symbol whose analysis raised or produced no result
Failed(s) == raisedTask[s] \/ ret[s] = 0

\* a symbol with an entry in the results list
Included(s) == \E i \in 1..Len(results) : results[i] # 0 /\ SymOf(results[i]) = s

PosIn(q, x) == CHOOSE i \in 1..Len(q) : q[i] = x

\* C1: when run() returns over N symbols of which K failed (raised or gave
\* no result), results has exactly N-K entries, one for each symbol that
\* did not fail, each the object that symbol's own task returned, built
\* from that symbol's own quote; and before it returns run() is never
\* stuck, whatever the other tasks did.
C1_PartialFailure ==
  /\ phase = "done" =>
       LET ok == {s \in Requested : ~Failed(s)} IN
         /\ Len(results) = nSym - Cardinality(Requested \ ok)
         /\ \A s \in ok :
              /\ Cardinality({i \in 1..Len(results) : results[i] = ret[s]}) = 1
              /\ heap[ret[s]].code = s
              /\ heap[ret[s]].change_percent = Quote(s).change_pct
              /\ heap[ret[s]].sentiment_score = CalculateBasicSentiment(Quote(s).change_pct)[1]
         /\ \A i \in 1..Len(results) : \E s \in ok : results[i] = ret[s]
  /\ phase # "done" => ENABLED Next

\* a run of two or more symbols has returned; the task that completed first
\* failed, and another symbol's result is in the list
C1_Witness ==
  /\ phase = "done"
  /\ nSym >= 2
  /\ Failed(completed[1])
  /\ \E s \in Requested : ~Failed(s) /\ Included(s)

\* every symbol of a run failed and the run returned the empty list
C1_WitnessAllFail ==
  /\ phase = "done"
  /\ nSym >= 2
  /\ \A s \in Requested : Failed(s)
  /\ results = <<>>

\* C2 (as stated): when run() has returned, every symbol whose task ran
\* longer than TASK_TIMEOUT is absent from results and has a timeout entry
\* in the log.
C2_TimeoutDiscards ==
  phase = "done" =>
    \A s \in Requested :
      took[s] > TASK_TIMEOUT => (~Included(s) /\ log[s].timeout >= 1)

\* C3: the tasks inside analyze_single_stock at any moment number at most
\* the max_workers argument, else config.max_workers, else 3.
C3_BoundedWorkers ==
  Cardinality(Running) <=
    (IF argWorkers # 0 THEN argWorkers
     ELSE IF cfgWorkers # 0 THEN cfgWorkers
     ELSE DEFAULT_MAX_WORKERS)

\* the pool is saturated: max_workers tasks run and a submitted one waits
C3_Witness ==
  /\ Cardinality(Running) = max_workers
  /\ \E s \in Requested : pc[s] = "pending"

\* C4 (as stated): of two results, the one whose task completed first
\* comes first in the returned list.
C4_CompletionOrder ==
  phase = "done" =>
    \A i, j \in 1..Len(results) :
      i < j => PosIn(completed, SymOf(results[i])) < PosIn(completed, SymOf(results[j]))

\* C4 (amended): results of tasks that had already completed when
\* as_completed started come first, in no particular order; after them the
\* results of the other tasks follow in completion order.
C4_CompletionOrderAfterStart ==
  phase = "done" =>
    \A i, j \in 1..Len(results) :
      i < j =>
        LET a == SymOf(results[i])
            b == SymOf(results[j])
        IN /\ b \in snapshot => a \in snapshot
           /\ (a \notin snapshot /\ b \notin snapshot)
                => PosIn(completed, a) < PosIn(completed, b)

\* two results collected after as_completed started, the later input first
C4_Witness ==
  /\ phase = "done"
  /\ Len(results) >= 2
  /\ SymOf(results[1]) > SymOf(results[2])
  /\ SymOf(results[1]) \notin snapshot
  /\ SymOf(results[2]) \notin snapshot

FailureEntries(s) ==
  log[s].source + log[s].task + log[s].ai + log[s].pipe + log[s].timeout

RECURSIVE SumOver(_, _)
SumOver(S, f) ==
  IF S = {} THEN 0
  ELSE LET x == CHOOSE y \in S : TRUE IN f[x] + SumOver(S \ {x}, f)

\* C5 (as stated): the failure entries a run logs are as many as the
\* symbols it excluded.
C5_OneFailureEntryPerExcluded ==
  phase = "done" =>
    SumOver(Requested, [s \in Requested |-> FailureEntries(s)])
      = Cardinality({s \in Requested : ~Included(s)})

\* C5 (amended): the collecting loop of run() logs exactly one failure entry
\* for each excluded symbol and none for an included one; every excluded
\* symbol therefore has a failure entry, but the run's log holds more: the
\* task logs its own error for an excluded symbol, and the data source and
\* the AI backend log theirs, also for symbols that stay in the results.
C5_OneLoopEntryPerExcluded ==
  phase = "done" =>
    /\ \A s \in Requested :
         /\ log[s].pipe + log[s].timeout = (IF Included(s) THEN 0 ELSE 1)
         /\ ~Included(s) => FailureEntries(s) >= 1
    /\ SumOver(Requested, [s \in Requested |-> log[s].pipe + log[s].timeout])
         = Cardinality({s \in Requested : ~Included(s)})

\* exactly one symbol of the run failed, on its quote fetch, and the run
\* returned the others
C5_Witness ==
  /\ phase = "done"
  /\ nSym >= 2
  /\ Cardinality({s \in Requested : ~Included(s)}) = 1
  /\ \E s \in Requested : fetched[s].quote = "timeout" /\ log[s].pipe = 1

C7_NoSharedMutableState ==
  /\ \A a \in acc :
       (a[1] # MainThread /\ a[3] = "w") =>
         \A t \in Symbols \ {a[1]}, mode \in {"r", "w"} : <<t, a[2], mode>> \notin acc
  /\ \A a \in acc : (a[2][1] = "results" /\ a[3] = "w") => a[1] = MainThread

\* two tasks are inside the backend call at once, each having read the
\* analyzer and written its own session and StockResult
C7_Witness ==
  \E s, t \in Requested :
    /\ s # t
    /\ pc[s] = "invoke" /\ pc[t] = "invoke"
    /\ Access(s, "analyzer", 0, "r") \in acc
    /\ Access(t, "analyzer", 0, "r") \in acc
    /\ Access(s, "result", s, "w") \in acc
    /\ Access(t, "result", t, "w") \in acc

RECURSIVE LoopResults(_)
LoopResults(q) ==
  IF q = <<>> THEN <<>>
  ELSE LET f == q[Len(q)]
           rest == LoopResults(SubSeq(q, 1, Len(q) - 1))
       IN IF ~raisedTask[f] /\ ret[f] # 0 THEN Append(rest, ret[f]) ELSE rest

\* C20: whether the report generation or notifier.send succeeds, returns
\* failure or raises, run() is never left by an exception, always goes on
\* to return, and returns the list its collecting loop built, the same as
\* with the notification disabled.
C20_NotificationIndependent ==
  /\ phase # "raised"
  /\ phase = "notify" => (results = LoopResults(yielded) /\ ENABLED Next)
  /\ (phase = "done" /\ nSym > 0) => results = LoopResults(yielded)

\* run() returned a non-empty list after generate_dashboard_report raised
\* inside _send_notification
C20_Witness ==
  /\ phase = "done"
  /\ notice.entered
  /\ notice.report = "raise"
  /\ notice.logged = 1
  /\ results # <<>>

\* run() returned a non-empty list after notifier.send raised
C20_WitnessSendRaises ==
  /\ phase = "done"
  /\ notice.entered
  /\ notice.send = "raise"
  /\ results # <<>>

\* run() returned a non-empty list with the notification switched off
C20_WitnessDisabled ==
  /\ phase = "done"
  /\ ~notice.send_notification
  /\ ~notice.entered
  /\ results # <<>>

\* the symbols for which an AI backend's analyze_stock ran during the run
AIAnalyzed == {s \in Requested : sel[s] \notin {"unresolved", "none"} /\ pc[s] = "finished"}

\* C21 (as stated): a run called with dry_run true has invoked no AI
\* backend's analyze_stock for any symbol when it returns.
C21_DryRunSkipsAI ==
  (phase = "done" /\ notice.dry_run) => AIAnalyzed = {}

\* C28: every data-source session a task opened is closed before the task
\* completes, on every path (after both fetches, and on the early return
\* for a missing quote); the fetches run only while the session is open,
\* and every step after the with block runs with the session closed.
C28_SessionClosedOnEveryPath ==
  \A s \in Requested :
    /\ pc[s] = "finished" => session[SessionOf(s)] # "open"
    /\ pc[s] \in {"quote", "kline"} => session[SessionOf(s)] = "open"
    /\ pc[s] \in {"select", "invoke"} => session[SessionOf(s)] = "closed"
    /\ session[SessionOf(s)] = "none" =>
         (pc[s] \in {"unsubmitted", "pending"} \/ (pc[s] = "finished" /\ ~importsOk))

\* a task returned None for a missing quote and its session is closed
C28_Witness ==
  \E s \in Requested :
    /\ pc[s] = "finished"
    /\ fetched[s].quote \in {"missing", "timeout"}
    /\ ret[s] = 0
    /\ session[SessionOf(s)] = "closed"

\* a task fetched quote and history, ran its AI backend and finished with
\* its session closed
C28_WitnessSuccess ==
  \E s \in Requested :
    /\ pc[s] = "finished"
    /\ fetched[s].quote = "ok"
    /\ sel[s] \notin {"unresolved", "none"}
    /\ session[SessionOf(s)] = "closed"

\* C29: run() calls the notifier at most once per run, only after every
\* submitted task has finished and as_completed has handed every outcome to
\* the collecting loop, and only when results is non-empty, send_notification
\* is true and dry_run is false; a run with no symbols submits no task and
\* never notifies.
C29_OneNotificationAfterCollection ==
  [][ /\ notice'.send # notice.send =>
           /\ notice.send = "none"
           /\ phase = "notify"
           /\ \A s \in Requested : pc[s] = "finished"
           /\ submitted = nSym
           /\ Len(yielded) = nSym
           /\ results # <<>>
           /\ notice.send_notification
           /\ ~notice.dry_run
      /\ nSym = 0 => (submitted' = 0 /\ notice'.send = "none" /\ ~notice'.entered)
    ]_vars

\* a run of MaxSymbols symbols, one of which failed, has notified once
C29_Witness ==
  /\ phase = "done"
  /\ nSym = MaxSymbols
  /\ notice.send \in {"ok", "false"}
  /\ Len(results) = nSym - 1
  /\ \A s \in Requested : pc[s] = "finished"

\* a run with no symbols returned at once
C29_WitnessNoSymbols ==
  /\ phase = "done"
  /\ nSym = 0
  /\ submitted = 0
  /\ notice = NoNotice

(* ===================== properties of analyze_stock ==================== *)

\* the backends that are configured and available
AvailableBackends ==
  {b \in {"deepseek", "openai", "gemini"} :
     /\ analyzer[b].configured
     /\ CASE b = "deepseek" -> analyzer.deepseek.api_key_len > DEEPSEEK_KEY_MIN
          [] b = "openai" -> analyzer.OPENAI_AVAILABLE /\ analyzer.openai.client
          [] OTHER -> analyzer.GENAI_AVAILABLE /\ analyzer.gemini.client}

\* the call in progress met an internal failure: no usable backend, or a
\* reply that is an exception, an error status, malformed or empty
InternalFailure ==
  \/ aiInvoked = {}
  \/ aiInvoked \cap AvailableBackends = {}
  \/ aiResp.kind \in {"raise", "non200", "malformed", "no_choices", "null_content"}
  \/ (aiResp.kind = "text" /\ aiResp.len = 0)

\* C8 (as stated): analyze_stock never raises, and on any internal failure
\* it returns the input object with every field as it was before the call.
C8_FailureReturnsInputUnchanged ==
  aiPc = "returned" =>
    /\ ~aiRaised
    /\ InternalFailure => (aiOut = AIInput /\ heap[aiOut] = aiBefore)

\* C9: a CombinedAnalyzer.analyze_stock call enters at most one backend,
\* the first configured and available one in the order DeepSeek, OpenAI,
\* Gemini; with none available it enters none and returns the input
\* unchanged.
C9_FirstAvailableBackendOnly ==
  (aiTarget = "combined" /\ aiPc \in {"resolved", "returned"}) =>
    /\ Cardinality(aiInvoked) <= 1
    /\ aiInvoked \subseteq AvailableBackends
    /\ "deepseek" \in AvailableBackends => aiInvoked = {"deepseek"}
    /\ ("deepseek" \notin AvailableBackends /\ "openai" \in AvailableBackends)
         => aiInvoked = {"openai"}
    /\ AvailableBackends = {"gemini"} => aiInvoked = {"gemini"}
    /\ AvailableBackends = {} =>
         (aiInvoked = {} /\ aiPc = "returned" /\ aiOut = AIInput /\ heap[AIInput] = aiBefore)

\* a call returned on an analyzer whose three backends are all available:
\* only DeepSeek was entered
C9_Witness ==
  /\ aiTarget = "combined"
  /\ aiPc = "returned"
  /\ AvailableBackends = {"deepseek", "openai", "gemini"}
  /\ aiInvoked = {"deepseek"}

\* a call returned from the OpenAI backend, reached because DeepSeek is
\* configured with a key too short to be available
C9_WitnessFallThrough ==
  /\ aiTarget = "combined"
  /\ aiPc = "returned"
  /\ analyzer.deepseek.configured
  /\ AvailableBackends = {"openai", "gemini"}
  /\ aiInvoked = {"openai"}

\* C11 (as stated): when an analyze_stock call has returned, on any backend
\* and for any reply, the StockResult object that was passed in has every
\* field as it was before the call.
C11_InputNeverMutated ==
  aiPc = "returned" => heap[AIInput] = aiBefore

\* the fields of a StockResult that are not AI narrative
RuleFields ==
  {"code", "name", "current_price", "change_percent", "sentiment_score",
   "technical_indicators", "additional_info"}

\* C27: whatever the backend and the outcome, the result analyze_stock
\* returns has the same code, name, current_price, change_percent,
\* sentiment_score, technical_indicators and additional_info as the input
\* had; only operation_advice and trend_prediction may differ.
C27_OnlyNarrativeFieldsChange ==
  aiPc = "returned" =>
    /\ aiOut # 0
    /\ \A f \in RuleFields : heap[aiOut][f] = aiBefore[f]

\* a DeepSeek call returned a new object whose advice and trend differ from
\* the input's
C27_Witness ==
  /\ aiPc = "returned"
  /\ aiInvoked = {"deepseek"}
  /\ aiOut # AIInput
  /\ aiOut # 0
  /\ heap[aiOut].operation_advice # aiBefore.operation_advice
  /\ heap[aiOut].trend_prediction # aiBefore.trend_prediction
  /\ heap[aiOut].sentiment_score = aiBefore.sentiment_score

\* a Gemini call returned the input object with a new advice
C27_WitnessInPlace ==
  /\ aiPc = "returned"
  /\ aiInvoked = {"gemini"}
  /\ aiOut = AIInput
  /\ heap[aiOut].operation_advice # aiBefore.operation_advice

(* ================== properties of the skill's rules =================== *)

\* C12: the rule-based sentiment is defined for every change percent and
\* follows the four-row table: above 3.0 it is (0.8, cautious-chase); above
\* 0 and up to 3.0 (0.6, watch); above -3.0 and up to 0 (0.4,
\* watch-for-opportunity); at or below -3.0 (0.2, caution).  So exactly 3.0
\* gives 0.6, exactly 0 gives 0.4, exactly -3.0 gives 0.2; the score lies
\* within [0, 1] (0..10 tenths).
C12_SentimentTable ==
  sentiment[2] # "not_called" =>
    /\ changePercent > 30 => sentiment = <<8, "cautious_chase">>
    /\ (0 < changePercent /\ changePercent <= 30) => sentiment = <<6, "watch">>
    /\ (-30 < changePercent /\ changePercent <= 0) => sentiment = <<4, "watch_opportunity">>
    /\ changePercent <= -30 => sentiment = <<2, "caution">>
    /\ changePercent = 30 => sentiment[1] = 6
    /\ changePercent = 0 => sentiment[1] = 4
    /\ changePercent = -30 => sentiment[1] = 2
    /\ sentiment[1] \in 0..10
    /\ sentiment[2] \in {"cautious_chase", "watch", "watch_opportunity", "caution"}

\* the sentiment of a quote that changed by exactly 3.0 percent was computed
C12_Witness ==
  /\ changePercent = 30
  /\ sentiment = <<6, "watch">>

\* the sentiment of a quote that fell by exactly 3.0 percent was computed
C12_WitnessLowerEdge ==
  /\ changePercent = -30
  /\ sentiment = <<2, "caution">>

\* the one row of the classifier's table that applies to the change percent
\* c, thresholds HIGH = 5.0 and MEDIUM = 3.0: 1 = large rise, 2 = large
\* fall, 3 = calm, 4 = medium move
ClassifierCases(c) ==
  {k \in 1..4 :
     \/ k = 1 /\ Abs(c) > 50 /\ c > 0
     \/ k = 2 /\ Abs(c) > 50 /\ c <= 0
     \/ k = 3 /\ Abs(c) <= 30
     \/ k = 4 /\ 30 < Abs(c) /\ Abs(c) <= 50}

\* C13 (as stated): for every input the classifier returns a pair of
\* levels, those of the one table row that applies: (MA5, DayHigh) for a
\* large rise, (MA20, OpenPrice) for a large fall, (MA20, MA10) when
\* |c| <= 3 and (MA10, MA5) when 3 < |c| <= 5.
C13_ClassifierTotal ==
  levels # NotCalled =>
    /\ Cardinality(ClassifierCases(changePercent)) = 1
    /\ levels.kind = "levels"
    /\ \A k \in ClassifierCases(changePercent) :
         <<levels.support[1], levels.resistance[1]>> =
           CASE k = 1 -> <<"MA5", "DayHigh">>
             [] k = 2 -> <<"MA20", "OpenPrice">>
             [] k = 3 -> <<"MA20", "MA10">>
             [] OTHER -> <<"MA10", "MA5">>
    /\ \A k \in ClassifierCases(changePercent) :
         k = 1 => levels.resistance[2] = RuleQuote(changePercent).high
    /\ \A k \in ClassifierCases(changePercent) :
         k = 2 => levels.resistance[2] = RuleQuote(changePercent).open

\* the classifier's table itself, on frames that have the three moving
\* averages: the same statement restricted to histories of MA_PERIODS.ma20
\* bars or more
C13_TableOnLongHistory ==
  bars >= 20 => C13_ClassifierTotal

\* the classifier was applied at |c| = 5.0 on a frame with all three
\* moving averages, and answered with the medium row
C13_WitnessLongHistory ==
  /\ bars >= 20
  /\ changePercent = -50
  /\ levels.kind = "levels"
  /\ levels.support = <<"MA10", LatestValues.ma10>>

(* =================== properties of signal derivation ================== *)

\* the cell of the pair's a (k = 1) or b (k = 2) column at row i
Cell(p, k, i) == frame[PairColumns[p][k]].cells[i]

\* both series of the pair p have a value at row i
DefinedAt(p, i) == Cell(p, 1, i) # NaN /\ Cell(p, 2, i) # NaN

\* a_t - b_t > 0 and a_(t-1) - b_(t-1) <= 0 at row i, all four cells defined
UpCross(p, i) ==
  /\ i > 1
  /\ DefinedAt(p, i) /\ DefinedAt(p, i - 1)
  /\ Cell(p, 1, i) - Cell(p, 2, i) > 0
  /\ Cell(p, 1, i - 1) - Cell(p, 2, i - 1) <= 0

\* a_t - b_t < 0 and a_(t-1) - b_(t-1) >= 0 at row i, all four cells defined
DownCross(p, i) ==
  /\ i > 1
  /\ DefinedAt(p, i) /\ DefinedAt(p, i - 1)
  /\ Cell(p, 1, i) - Cell(p, 2, i) < 0
  /\ Cell(p, 1, i - 1) - Cell(p, 2, i - 1) >= 0

\* the pairs whose flag columns the call produced
Flagged == {p \in Pairs : signals[p].buy.present}

\* C14: for each pair in the frame and every row, the buy flag is set
\* exactly when a - b is positive there and was zero or negative one row
\* earlier, and the sell flag exactly when a - b is negative there and was
\* zero or positive one row earlier; so a buy flag is never followed or
\* preceded by a buy flag of the same pair on the neighbouring row.
C14_CrossoverFlags ==
  signals # NotCalled =>
    \A p \in Flagged :
      /\ \A i \in 1..frame.n :
           /\ signals[p].buy.cells[i] <=> UpCross(p, i)
           /\ signals[p].sell.cells[i] <=> DownCross(p, i)
      /\ \A i \in 1..(frame.n - 1) :
           /\ ~(signals[p].buy.cells[i] /\ signals[p].buy.cells[i + 1])
           /\ ~(signals[p].sell.cells[i] /\ signals[p].sell.cells[i + 1])

\* three rows in which K, below or equal to D before, is above D from the
\* second row on, starting from equality: the KDJ buy flag is set on the
\* second row only
C14_Witness ==
  /\ signals # NotCalled
  /\ frame.n = 3
  /\ frame.kdj_k.present /\ frame.kdj_d.present
  /\ frame.kdj_k.cells = <<1, 2, 2>>
  /\ frame.kdj_d.cells = <<1, 1, 1>>
  /\ signals.kdj.buy.cells = <<FALSE, TRUE, FALSE>>

\* C15: for every frame, every pair and every row, the pair's buy flag and
\* sell flag are not both set.
C15_BuySellExclusive ==
  signals # NotCalled =>
    \A p \in Flagged : \A i \in 1..frame.n :
      ~(signals[p].buy.cells[i] /\ signals[p].sell.cells[i])

\* a pair crossed upwards on one row and downwards on the next, so both of
\* its flags are set, on different rows
C15_Witness ==
  /\ signals # NotCalled
  /\ \E p \in Flagged : \E i \in 1..(frame.n - 1) :
       signals[p].buy.cells[i] /\ signals[p].sell.cells[i + 1]

\* the pairs whose indicator columns are in the frame
Available == {p \in Pairs : \A k \in 1..2 : frame[PairColumns[p][k]].present}

\* C16: on every row signal_buy is the OR of the buy flags of the pairs
\* whose indicator columns are in the frame, and signal_sell the OR of their
\* sell flags; a pair that is not in the frame has no flag columns and
\* contributes nothing.
C16_CombinedIsOrOfAvailable ==
  signals # NotCalled =>
    /\ Flagged = Available
    /\ \A i \in 1..frame.n :
         /\ signals.signal_buy[i] <=> \E p \in Available : UpCross(p, i)
         /\ signals.signal_sell[i] <=> \E p \in Available : DownCross(p, i)

\* the KDJ pair is not in the frame, the trend pair has no cross on the
\* second row and MACD alone crosses upwards there: signal_buy is set
C16_Witness ==
  /\ signals # NotCalled
  /\ frame.n >= 2
  /\ "kdj" \notin Available
  /\ "trend" \in Available /\ ~signals.trend.buy.cells[2]
  /\ "macd" \in Available /\ signals.macd.buy.cells[2]
  /\ signals.signal_buy[2]

\* C17: on a row where a series of a pair has no value there or one row
\* earlier (the first row has no earlier one), the pair sets neither flag;
\* and on a row where this is so for every pair in the frame, signal_buy and
\* signal_sell are both false.
C17_NoSignalWithoutHistory ==
  signals # NotCalled =>
    \A i \in 1..frame.n :
      LET unavailable(p) ==
            \/ p \notin Available
            \/ i = 1
            \/ ~DefinedAt(p, i)
            \/ ~DefinedAt(p, i - 1)
      IN /\ \A p \in Flagged :
              unavailable(p) => (~signals[p].buy.cells[i] /\ ~signals[p].sell.cells[i])
         /\ (\A p \in Pairs : unavailable(p)) =>
              (~signals.signal_buy[i] /\ ~signals.signal_sell[i])

\* a is above b on the second row, but the first row has no value: no flag
\* of that pair is set there, and with no other pair in the frame
\* signal_buy stays false
C17_Witness ==
  /\ signals # NotCalled
  /\ frame.n >= 2
  /\ Available = {"macd"}
  /\ frame.macd.cells[1] = NaN
  /\ frame.macd.cells[2] = 2 /\ frame.macd_signal.cells[2] = 1
  /\ ~signals.macd.buy.cells[2]
  /\ ~signals.signal_buy[2]

\* C30: the report's combined advice gives sell precedence: with both
\* signal_sell and signal_buy set on the latest bar it is sell; it is buy
\* only when signal_buy is set and signal_sell is not, and watch when
\* neither is set.
C30_SellHasPrecedence ==
  advice # NotCalled =>
    LET buy == signals.signal_buy[frame.n]
        sell == signals.signal_sell[frame.n]
    IN /\ (sell /\ buy) => advice.signal = "sell"
       /\ advice.signal = "sell" <=> sell
       /\ advice.signal = "buy" <=> (buy /\ ~sell)
       /\ advice.signal = "watch" <=> (~buy /\ ~sell)

\* the latest bar carries a buy flag of one pair and a sell flag of another,
\* and the report says sell
C30_Witness ==
  /\ advice # NotCalled
  /\ signals.signal_buy[frame.n]
  /\ signals.signal_sell[frame.n]
  /\ \E p, q \in Pairs :
       /\ p # q
       /\ signals[p].buy.present /\ signals[p].buy.cells[frame.n]
       /\ signals[q].sell.present /\ signals[q].sell.cells[frame.n]
  /\ advice.signal = "sell"

(* ================= properties of the indicator engine ================= *)

\* the column c is in the frame the call returned
Has(c) == indResult.kind = "frame" /\ indResult.cols[c].present

\* C18: with nothing failing, calculate_all_indicators returns None exactly
\* when the history has fewer than 5 bars (or is None), and otherwise a
\* frame with the KDJ columns iff L >= 9, the MACD columns iff L >= 26, BBI
\* iff L >= 24, the multi line iff L >= 114, RSI iff L >= 14, each moving
\* average of window p iff L >= p, and the trend line always.
C18_GatedOnHistoryLength ==
  (indResult # NotCalled /\ fault = "none") =>
    /\ indResult.kind = (IF bars < 5 THEN "none" ELSE "frame")
    /\ bars >= 5 =>
         /\ \A c \in {"kdj_k", "kdj_d", "kdj_j"} : Has(c) <=> bars >= 9
         /\ \A c \in {"macd", "macd_signal", "macd_hist"} : Has(c) <=> bars >= 26
         /\ Has("bbi") <=> bars >= 24
         /\ Has("zhixing_multi") <=> bars >= 114
         /\ Has("rsi") <=> bars >= 14
         /\ Has("ma5") <=> bars >= 5
         /\ Has("ma10") <=> bars >= 10
         /\ Has("ma20") <=> bars >= 20
         /\ Has("ma30") <=> bars >= 30
         /\ Has("ma60") <=> bars >= 60
         /\ Has("ema13") <=> bars >= 13
         /\ Has("zhixing_trend")

\* a history of 25 bars was analyzed: the frame has BBI and no MACD
C18_Witness ==
  /\ fault = "none"
  /\ bars = 25
  /\ Has("bbi")
  /\ ~Has("macd")
  /\ Has("zhixing_trend")

\* a history of 4 bars was analyzed: no frame
C18_WitnessTooShort ==
  /\ indResult # NotCalled
  /\ bars = 4
  /\ indResult.kind = "none"

\* the columns that hold the indicator whose computation failed
FaultColumns(f) ==
  CASE f = "kdj" -> {"kdj_k", "kdj_d", "kdj_j"}
    [] f = "macd" -> {"macd", "macd_signal", "macd_hist"}
    [] f = "bbi" -> {"bbi"}
    [] f = "rsi" -> {"rsi"}
    [] f = "sma" -> {"ma5", "ma10", "ma20", "ma30", "ma60"}
    [] f = "ema" -> {"ema13"}
    [] f = "trend" -> {"zhixing_trend"}
    [] f = "multi" -> {"zhixing_multi"}
    [] OTHER -> {}

\* the call returned what a call without the failure returns, except that
\* the failed indicator's columns have no value in any row
Isolated ==
  LET clean == CalculateAllIndicators(bars, "none") IN
    /\ indResult.kind = clean.kind
    /\ indResult.kind = "frame" =>
         \A c \in DOMAIN clean.cols :
           IF c \in FaultColumns(fault)
             THEN /\ indResult.cols[c].present = clean.cols[c].present
                  /\ indResult.cols[c].present => indResult.cols[c].first = bars
             ELSE indResult.cols[c] = clean.cols[c]

\* C19 (as stated): whichever single indicator computation raises,
\* calculate_all_indicators returns a frame in which that indicator has no
\* value in any row and every other column is as without the failure.
C19_FaultIsolatedPerIndicator ==
  indResult # NotCalled => Isolated

\* the part of C19 the code provides: a failure inside the trend line or
\* the multi line is caught by the function itself and isolated
C19_ZhixingFaultsIsolated ==
  (indResult # NotCalled /\ fault \in {"trend", "multi", "oscillator"}) => Isolated

\* the trend line failed on a history long enough for every indicator; the
\* frame came back with an all-undefined trend column and with KDJ
C19_WitnessTrendFault ==
  /\ fault = "trend"
  /\ bars = MaxHistory
  /\ Has("kdj_k")
  /\ indResult.cols.zhixing_trend.first = bars

(* ============= properties of the configuration singleton ============== *)

\* the calls that returned an instance
Returned(i) == cfgTrace[i].ret # 0

\* the reload_config calls before call i that returned
ReloadsBefore(i) == {j \in 1..(i - 1) : cfgTrace[j].op = "reload" /\ Returned(j)}

\* the get_global_config calls up to call i that returned
GetsUpTo(i) == {j \in 1..i : cfgTrace[j].op = "get" /\ Returned(j)}

\* the greatest and the least element of a non-empty set of call indices
Latest(S) == CHOOSE j \in S : \A k \in S : k <= j

Earliest(S) == CHOOSE j \in S : \A k \in S : j <= k

\* C22: between reloads the configuration is a singleton: a
\* get_global_config call returns the instance the most recent
\* reload_config call created, or, when no reload has happened, the instance
\* the first get_global_config call created; two get_global_config calls
\* with no reload_config call between them return the identical instance.
C22_SingletonBetweenReloads ==
  /\ \A i \in 1..Len(cfgTrace) :
       (cfgTrace[i].op = "get" /\ Returned(i)) =>
         IF ReloadsBefore(i) # {}
         THEN /\ cfgTrace[i].ret = cfgTrace[Latest(ReloadsBefore(i))].ret
              /\ cfgTrace[Latest(ReloadsBefore(i))].made
         ELSE /\ cfgTrace[i].ret = cfgTrace[Earliest(GetsUpTo(i))].ret
              /\ cfgTrace[Earliest(GetsUpTo(i))].made
  /\ \A i, k \in 1..Len(cfgTrace) :
       ( /\ i < k
         /\ cfgTrace[i].op = "get" /\ Returned(i)
         /\ cfgTrace[k].op = "get" /\ Returned(k)
         /\ \A j \in (i + 1)..(k - 1) : cfgTrace[j].op # "reload" )
       => cfgTrace[i].ret = cfgTrace[k].ret
  /\ \A i, k \in 1..Len(cfgTrace) :
       (i < k /\ cfgTrace[k].made) => cfgTrace[k].ret # cfgTrace[i].ret

\* a get, a reload that replaced the instance, then two gets that both
\* return the reloaded instance
C22_Witness ==
  /\ Len(cfgTrace) >= 4
  /\ cfgTrace[1].op = "get" /\ Returned(1)
  /\ cfgTrace[2].op = "reload" /\ Returned(2)
  /\ cfgTrace[3].op = "get" /\ cfgTrace[4].op = "get"
  /\ cfgTrace[3].ret = cfgTrace[2].ret
  /\ cfgTrace[4].ret = cfgTrace[3].ret
  /\ cfgTrace[3].ret # cfgTrace[1].ret

(* ============ properties of the numeric indicator functions =========== *)

\* the sum of the rows a..b of a series
RECURSIVE SumRows(_, _, _)
SumRows(data, a, b) == IF a > b THEN 0 ELSE data[b] + SumRows(data, a, b - 1)

\* the rows a..b of a series all hold a value
AllDefined(data, a, b) == \A j \in a..b : data[j] # NaN

\* C23: calculate_sma over a series of length L with window w returns a
\* series of length L; its first w-1 entries are undefined, and every
\* later entry i equals the arithmetic mean of the w input values at rows
\* i-w+1 .. i (rows counted from 1 here).
C23_SmaIsWindowMean ==
  numOut.kind = "sma" =>
    /\ Len(numOut.values) = Len(series.close)
    /\ \A i \in 1..Len(numOut.values) :
         IF i < windowArg
         THEN IsNaN(numOut.values[i])
         ELSE AllDefined(series.close, i - windowArg + 1, i) =>
                /\ ~IsNaN(numOut.values[i])
                /\ numOut.values[i].num * windowArg =
                     SumRows(series.close, i - windowArg + 1, i) * numOut.values[i].den

\* a call with window 3 on four unequal prices: two undefined entries, then
\* two means of different windows
C23_Witness ==
  /\ numOut.kind = "sma"
  /\ windowArg = 3
  /\ Len(numOut.values) = 4
  /\ AllDefined(series.close, 1, 4)
  /\ series.close[1] # series.close[4]
  /\ IsNaN(numOut.values[2])
  /\ ~IsNaN(numOut.values[3]) /\ ~IsNaN(numOut.values[4])
  /\ numOut.values[3] # numOut.values[4]

\* every bar of the series has low <= close <= high
CloseWithinBar ==
  \A i \in 1..Len(series.close) :
    series.low[i] <= series.close[i] /\ series.close[i] <= series.high[i]

InPercentRange(q) == FracLe(Frac(0, 1), q) /\ FracLe(q, Frac(100, 1))

\* C24: for input bars that all satisfy low <= close <= high, the K and D
\* values calculate_kdj returns lie in [0, 100] wherever they are defined.
C24_KdjWithinRange ==
  (numOut.kind = "kdj" /\ CloseWithinBar) =>
    \A i \in 1..Len(numOut.k) :
      /\ ~IsNaN(numOut.k[i]) => InPercentRange(numOut.k[i])
      /\ ~IsNaN(numOut.d[i]) => InPercentRange(numOut.d[i])

\* a call on well-formed bars whose last K and D are defined, differ and lie
\* strictly inside the range, after a row where K was still undefined
C24_Witness ==
  /\ numOut.kind = "kdj"
  /\ CloseWithinBar
  /\ Len(numOut.k) = MaxKdjBars
  /\ IsNaN(numOut.k[1])
  /\ ~IsNaN(numOut.k[MaxKdjBars]) /\ ~IsNaN(numOut.d[MaxKdjBars])
  /\ numOut.k[MaxKdjBars] # numOut.d[MaxKdjBars]
  /\ numOut.k[MaxKdjBars].num > 0
  /\ ~FracLe(Frac(100, 1), numOut.k[MaxKdjBars])

StrictlyIncreasing(close) == \A i \in 2..Len(close) : close[i] > close[i - 1]

StrictlyDecreasing(close) == \A i \in 2..Len(close) : close[i] < close[i - 1]

\* the last value of the series a calculate_rsi call returned
FinalRsi == numOut.values[Len(numOut.values)]

\* a finished calculate_rsi call on at least RSI_PERIOD + 1 closes
RsiOnLongSeries == numOut.kind = "rsi" /\ Len(series.close) >= RSI_PERIOD + 1

\* the rise of the close over the last RSI_PERIOD bars
FinalRise == series.close[Len(series.close)] - series.close[Len(series.close) - RSI_PERIOD]

\* C25 (as stated): for any series of at least 15 strictly increasing closes
\* the final RSI(14) value exceeds 90, and for any series of at least 15
\* strictly decreasing closes it is below 10.
C25_RsiMonotoneExtremes ==
  RsiOnLongSeries =>
    /\ StrictlyIncreasing(series.close) =>
         ~IsNaN(FinalRsi) /\ ~FracLe(FinalRsi, Frac(90, 1))
    /\ StrictlyDecreasing(series.close) =>
         ~IsNaN(FinalRsi) /\ ~FracLe(Frac(10, 1), FinalRsi)

\* C25 (amended): the final RSI(14) of at least 15 strictly increasing
\* closes exceeds 90 exactly when the close rose by more than
\* 9 * 14 * EPSILON over the last 14 bars (a mean rise above 9 * EPSILON);
\* the final RSI(14) of at least 15 strictly decreasing closes is 0, hence
\* below 10.
C25_RsiMonotoneExtremesAmended ==
  RsiOnLongSeries =>
    /\ StrictlyIncreasing(series.close) =>
         /\ ~IsNaN(FinalRsi)
         /\ ~FracLe(FinalRsi, Frac(90, 1)) <=> FinalRise > 9 * RSI_PERIOD * EPSILON
    /\ StrictlyDecreasing(series.close) =>
         FinalRsi = Frac(0, 1)

\* strictly increasing closes that rise by a large step each day: RSI above 90
C25_Witness ==
  /\ RsiOnLongSeries
  /\ StrictlyIncreasing(series.close)
  /\ FinalRise > 9 * RSI_PERIOD * EPSILON
  /\ ~FracLe(FinalRsi, Frac(90, 1))

\* strictly increasing closes that rise by EPSILON each day: RSI is 50
C25_WitnessSmallRise ==
  /\ RsiOnLongSeries
  /\ StrictlyIncreasing(series.close)
  /\ FinalRsi = Frac(50, 1)

\* strictly decreasing closes: RSI is 0
C25_WitnessDecreasing ==
  /\ RsiOnLongSeries
  /\ StrictlyDecreasing(series.close)
  /\ FinalRsi = Frac(0, 1)

(* ================= properties of normalize_stock_code ================= *)

SixDigits(str) == Len(str) = 6 /\ \A i \in 1..Len(str) : str[i] \in Digits

\* C26 (as stated): normalize_stock_code returns either None or a string
\* of exactly six decimal digits; a six-digit code is returned unchanged,
\* and a code with an sh, sz or bj prefix (in any letter case) followed by
\* six digits is returned as those six digits.
C26_NoneOrSixDigits ==
  codeOut # NotCalled =>
    /\ codeOut = NoCode \/ SixDigits(codeOut.value)
    /\ SixDigits(codeIn) => codeOut = Code(codeIn)
    /\ ( /\ Len(codeIn) = 8
         /\ Lower(SubSeq(codeIn, 1, 2)) \in MarketPrefixes
         /\ SixDigits(SubSeq(codeIn, 3, 8)) )
       => codeOut = Code(SubSeq(codeIn, 3, 8))

\* what does hold: well-formed codes are normalized as C26 says, and every
\* other result is the last six characters of an eight-character input that
\* starts with a market prefix
C26_WellFormedCodesNormalized ==
  codeOut # NotCalled =>
    /\ SixDigits(codeIn) => codeOut = Code(codeIn)
    /\ ( /\ Len(codeIn) = 8
         /\ Lower(SubSeq(codeIn, 1, 2)) \in MarketPrefixes
         /\ SixDigits(SubSeq(codeIn, 3, 8)) )
       => codeOut = Code(SubSeq(codeIn, 3, 8))
    /\ (codeOut # NoCode /\ ~SixDigits(codeOut.value)) =>
         /\ Len(Strip(codeIn)) = 8
         /\ Lower(SubSeq(Strip(codeIn), 1, 2)) \in MarketPrefixes

\* normalize_stock_code("sh" + six characters that are not all digits)
\* returned those six characters
C26_WitnessNonDigits ==
  /\ codeOut # NotCalled
  /\ codeOut # NoCode
  /\ ~SixDigits(codeOut.value)

====
